---- MODULE Spec2Model ----
(***************************************************************************)
(* The review analyzers of src/rev2.py and src/tt.py (two versions of      *)
(* class CompanyReviewAnalyzer) as one state machine.  `impl` says which   *)
(* version the analyzer object is.  Python values are modelled as tagged   *)
(* records, Python strings as TLA+ strings, and the string operations the  *)
(* code relies on (lower, in, split, filter(str.isdigit), int, sorted,     *)
(* an f-string with :.1f, rstrip, float) character by character, and the   *)
(* percentages as the doubles that float division and multiplication give. *)
(*                                                                         *)
(* Spec is one call on an analyzer; SpecLarge is generate_summary on a     *)
(* batch of LargeBatch reviews; SpecCalls is a sequence of calls on the    *)
(* same analyzer; SpecClip is YouTubeClipper.download_clip of src/2yt.py,  *)
(* statement by statement.                                                 *)
(***************************************************************************)
EXTENDS Integers, Sequences, FiniteSets, TLC

VARIABLES
  impl,              \* which CompanyReviewAnalyzer: "rev2" or "tt"
  sia,               \* self.sia, the external sentiment scorer
  op,                \* the method called on the analyzer
  reviews,           \* the argument: the batch, or the one review
  pc,                \* "idle", "tally" (in the loop over reviews), "returned", "raised"
  idx,               \* generate_summary: the review the loop is at
  all_themes,        \* generate_summary: the tallies
  rating_themes,     \* analyze_review: what _analyze_numeric_ratings returned
  salary_sentiment,  \* analyze_review: what _analyze_salary_range returned, "" when not called
  analysis,          \* what the last analyze_review returned
  analyses,          \* generate_summary: what analyze_review returned in each loop turn so far
  theme_sentiments,  \* generate_summary: the included themes, in insertion order
  summary,           \* generate_summary: the result
  calls,             \* the number of calls on the analyzer that have ended
  clip_pc,           \* download_clip: the statement the call is at
  video_kind,        \* what the video of video_url is: the answers of pytube
  start_time,        \* download_clip: the argument start_time
  end_time,          \* download_clip: the argument end_time
  tries,             \* _get_video_info: tries
  info,              \* how _get_video_info ended: "yt" or the exception class, "" before
  start_seconds,     \* download_clip: start_seconds
  end_seconds,       \* download_clip: end_seconds
  temp_path,         \* download_clip: temp_path is not None
  temp_file,         \* the temporary video file exists on disk
  video,             \* download_clip: video, "none" for None, "open" or "closed"
  video_clip,        \* download_clip: video_clip, the same
  exc,               \* the exception leaving the try statement, "" for none
  cleanup_error,     \* the cleanup step that raised and was logged, "" for none
  outcome            \* how download_clip ended: "returned" or the exception class, "" before

analyzer_vars ==
  <<impl, sia, op, reviews, pc, idx, all_themes, rating_themes, salary_sentiment,
    analysis, analyses, theme_sentiments, summary, calls>>

clipper_vars ==
  <<clip_pc, video_kind, start_time, end_time, tries, info, start_seconds, end_seconds,
    temp_path, temp_file, video, video_clip, exc, cleanup_error, outcome>>

vars == <<analyzer_vars, clipper_vars>>

\* ------------------------------------------------------------------------
\* Bounds of the model.
\* ------------------------------------------------------------------------

\* Longest batch handed to generate_summary.
MaxBatch == 5

\* Longest batch whose tally is compared with the tally of each of its permutations.
MaxPermuted == 4

\* Ratings are drawn from 0..MaxRating (the spec's domain is 0-10).
MaxRating == 10

\* ------------------------------------------------------------------------
\* Python strings.
\* ------------------------------------------------------------------------

\* The characters the model's strings use, in code point order.
Ascii == " %()-.0123456789ABCDEFGHIJKLMNOPQRSTUVWXYZ_abcdefghijklmnopqrstuvwxyz"

Char(s, i) == SubSeq(s, i, i)

Ord(c) == CHOOSE i \in 1..Len(Ascii) : Char(Ascii, i) = c

Digits == "0123456789"

Uppers == "ABCDEFGHIJKLMNOPQRSTUVWXYZ"

Lowers == "abcdefghijklmnopqrstuvwxyz"

IndexIn(c, s) == IF \E i \in 1..Len(s) : Char(s, i) = c
                 THEN CHOOSE i \in 1..Len(s) : Char(s, i) = c
                 ELSE 0

\* str.isdigit, for one character
isdigit(c) == IndexIn(c, Digits) > 0

\* str.lower
RECURSIVE lower(_)
lower(s) ==
  IF Len(s) = 0 THEN ""
  ELSE LET c == Char(s, 1)
           k == IndexIn(c, Uppers)
       IN (IF k > 0 THEN Char(Lowers, k) ELSE c) \o lower(SubSeq(s, 2, Len(s)))

\* keyword in text: substring containment
contains(keyword, text) ==
  \E i \in 1..(Len(text) - Len(keyword) + 1) :
     SubSeq(text, i, i + Len(keyword) - 1) = keyword

\* ''.join(filter(str.isdigit, val))
RECURSIVE filter_isdigit(_)
filter_isdigit(val) ==
  IF Len(val) = 0 THEN ""
  ELSE (IF isdigit(Char(val, 1)) THEN Char(val, 1) ELSE "")
       \o filter_isdigit(SubSeq(val, 2, Len(val)))

\* str.split(sep) for a one-character separator: the list of the parts
RECURSIVE split(_, _)
split(s, sep) ==
  IF \E i \in 1..Len(s) : Char(s, i) = sep
  THEN LET i == CHOOSE j \in 1..Len(s) :
                   /\ Char(s, j) = sep
                   /\ \A k \in 1..(j - 1) : Char(s, k) # sep
       IN <<SubSeq(s, 1, i - 1)>> \o split(SubSeq(s, i + 1, Len(s)), sep)
  ELSE <<s>>

\* int(s) of a string of decimal digits; int('') raises ValueError, which the
\* callers test with Len(s) = 0 before they use the value
RECURSIVE int(_)
int(s) ==
  IF Len(s) = 0 THEN 0
  ELSE 10 * int(SubSeq(s, 1, Len(s) - 1)) + (IndexIn(Char(s, Len(s)), Digits) - 1)

\* a < b for Python strings: code point order, a proper prefix first
RECURSIVE str_lt(_, _)
str_lt(a, b) ==
  IF Len(b) = 0 THEN FALSE
  ELSE IF Len(a) = 0 THEN TRUE
  ELSE IF Char(a, 1) = Char(b, 1)
       THEN str_lt(SubSeq(a, 2, Len(a)), SubSeq(b, 2, Len(b)))
       ELSE Ord(Char(a, 1)) < Ord(Char(b, 1))

\* sorted(list(set(xs))) for a list of strings: duplicates dropped, ascending
RECURSIVE sorted_set(_)
sorted_set(S) ==
  IF S = {} THEN <<>>
  ELSE LET m == CHOOSE x \in S : \A y \in S \ {x} : str_lt(x, y)
       IN <<m>> \o sorted_set(S \ {m})

Range(f) == {f[x] : x \in DOMAIN f}

\* ------------------------------------------------------------------------
\* Python values held by a review's keys.
\* ------------------------------------------------------------------------

\* the key is not in the dict
Absent == [kind |-> "absent", num |-> 0, str |-> ""]

\* an int (a float or a bool pass the same isinstance test)
Num(n) == [kind |-> "num", num |-> n, str |-> ""]

\* a str
Str(s) == [kind |-> "str", num |-> 0, str |-> s]

\* a value that is neither a number nor a str: None (falsy) or a list (truthy)
Other(is_true) == [kind |-> "other", num |-> IF is_true THEN 1 ELSE 0, str |-> ""]

\* bool(v) for a value that is present
truthy(v) ==
  CASE v.kind = "num" -> v.num # 0
    [] v.kind = "str" -> Len(v.str) > 0
    [] v.kind = "other" -> v.num = 1
    [] OTHER -> FALSE

\* key in review
has(review, key) == review[key].kind # "absent"

Polarities == <<"positive", "negative", "neutral">>

\* ------------------------------------------------------------------------
\* The analyzers' tables.
\* ------------------------------------------------------------------------

RATING_THRESHOLD_HIGH == 7

RATING_THRESHOLD_LOW == 4

\* rev2.py: self.themes, one keyword list per theme
rev2_themes ==
  "work_culture" :> {
       "culture", "environment", "atmosphere", "workplace", "team", "collaboration",
       "friendly", "inclusive", "diverse", "supportive", "transparency", "ethics",
       "values", "diversity", "inclusion", "respect", "belonging", "community", "social",
       "fun", "positive", "toxic", "politics", "bureaucracy"}
  @@ "leadership" :> {
       "leadership", "management", "direction", "strategy", "vision", "leader", "manager",
       "executive", "boss", "supervisor", "communication", "transparency", "decision",
       "guidance", "mentorship", "coaching", "feedback", "recognition", "micromanagement",
       "hierarchy", "clarity"}
  @@ "compensation" :> {
       "salary", "benefits", "pay", "compensation", "bonus", "package", "stock",
       "insurance", "retirement", "401k", "raise", "equity", "options", "rsu",
       "healthcare", "dental", "vision", "pto", "vacation", "leave", "perks", "allowance",
       "reimbursement", "overtime", "commission"}
  @@ "work_life_balance" :> {
       "balance", "flexibility", "hours", "schedule", "remote", "time", "wlb", "flexible",
       "workload", "overtime", "vacation", "burnout", "stress", "pressure", "deadline",
       "weekend", "holiday", "family", "personal", "hybrid", "work from home", "wfh",
       "commute"}
  @@ "career_growth" :> {
       "growth", "learning", "development", "opportunity", "promotion", "career",
       "training", "mentor", "skill", "advance", "progress", "education", "certification",
       "conference", "workshop", "upskill", "challenge", "responsibility", "exposure",
       "path", "trajectory", "potential"}
  @@ "innovation" :> {
       "innovation", "technology", "creative", "innovative", "cutting-edge", "modern",
       "tools", "tech", "startup", "agile", "future", "research", "development",
       "experimentation", "breakthrough", "transformation", "digital", "automation", "ai",
       "machine learning", "cloud", "stack"}
  @@ "job_security" :> {
       "security", "stable", "stability", "layoff", "redundancy", "permanent", "contract",
       "temporary", "future", "uncertainty", "downsizing", "reorganization",
       "restructuring", "merger", "acquisition", "full-time", "part-time"}
  @@ "office_environment" :> {
       "office", "workspace", "facility", "amenities", "location", "parking", "cafeteria",
       "food", "gym", "ergonomic", "desk", "equipment", "supplies", "building",
       "infrastructure", "safety", "clean", "comfortable"}
  @@ "team_dynamics" :> {
       "team", "colleague", "coworker", "peer", "collaboration", "communication",
       "support", "morale", "conflict", "politics", "drama", "cooperation", "teamwork",
       "relationship", "dynamic", "interaction", "coordination"}
  @@ "company_performance" :> {
       "performance", "growth", "revenue", "profit", "market", "competitor", "industry",
       "success", "failure", "strategy", "direction", "leadership", "management", "vision",
       "mission", "goal", "objective", "target"}
  @@ "diversity_inclusion" :> {
       "diversity", "inclusion", "equality", "equity", "discrimination", "bias",
       "harassment", "representation", "minority", "gender", "race", "age", "disability",
       "lgbt", "culture", "background", "perspective"}
  @@ "project_management" :> {
       "project", "deadline", "timeline", "planning", "execution", "delivery", "scrum",
       "agile", "waterfall", "methodology", "process", "workflow", "coordination",
       "organization", "requirement", "specification"}

\* rev2.py: the order in which self.themes.items() yields the themes
rev2_theme_order ==
  <<"work_culture", "leadership", "compensation", "work_life_balance", "career_growth",
    "innovation", "job_security", "office_environment", "team_dynamics",
    "company_performance", "diversity_inclusion", "project_management">>

\* tt.py: self.themes, one keyword list per theme and polarity
tt_themes ==
  "work_culture" :> (
       "positive" :> {"collaborative", "inclusive", "supportive", "friendly", "positive"}
       @@ "negative" :> {"toxic", "hostile", "political", "bureaucratic", "unfriendly"}
       @@ "neutral" :> {"formal", "casual", "traditional", "startup-like", "corporate"})
  @@ "leadership" :> (
       "positive" :> {"transparent", "inspiring", "approachable", "effective", "visionary"}
       @@ "negative" :> {"micromanaging", "unclear", "disorganized", "absent", "poor"}
       @@ "neutral" :> {"hands-off", "structured", "hierarchical", "decentralized"})
  @@ "compensation" :> (
       "positive" :> {"competitive", "generous", "excellent", "comprehensive", "above-market"}
       @@ "negative" :> {"low", "below-market", "inadequate", "unfair", "poor"}
       @@ "neutral" :> {"standard", "industry-average", "market-rate", "typical"})
  @@ "work_life_balance" :> (
       "positive" :> {"flexible", "balanced", "accommodating", "reasonable", "great"}
       @@ "negative" :> {"demanding", "stressful", "burnout", "overwhelming", "poor"}
       @@ "neutral" :> {"structured", "predictable", "regular", "standard"})
  @@ "career_growth" :> (
       "positive" :> {"excellent", "promising", "abundant", "clear", "supported"}
       @@ "negative" :> {"limited", "stagnant", "unclear", "rare", "nonexistent"}
       @@ "neutral" :> {"steady", "gradual", "traditional", "standard"})
  @@ "innovation" :> (
       "positive" :> {"cutting-edge", "innovative", "advanced", "modern", "progressive"}
       @@ "negative" :> {"outdated", "legacy", "behind", "obsolete", "stagnant"}
       @@ "neutral" :> {"established", "stable", "conventional", "standard"})

\* tt.py: the order in which self.themes.items() yields the themes
tt_theme_order ==
  <<"work_culture", "leadership", "compensation", "work_life_balance", "career_growth",
    "innovation">>

\* rating field -> theme, in the order of the dict literal (the same in both files)
rating_fields ==
  << <<"work_life_balance", "work_life_balance">>,
     <<"career_growth", "career_growth">>,
     <<"leadership_management", "leadership">>,
     <<"innovation", "innovation">> >>

\* rev2.py: theme_texts of _generate_theme_text
rev2_theme_texts ==
  "work_culture" :> "Strong company culture and positive work environment"
  @@ "diversity" :> "Inclusive workplace with strong diversity initiatives"
  @@ "ethics" :> "Strong ethical practices and corporate values"
  @@ "social_impact" :> "Meaningful social impact and community engagement"
  @@ "collaboration" :> "Collaborative and team-oriented environment"
  @@ "leadership" :> "Effective leadership and management team"
  @@ "communication" :> "Clear communication and transparency from management"
  @@ "strategy" :> "Strong strategic direction and company vision"
  @@ "mentorship" :> "Quality mentorship and professional guidance"
  @@ "recognition" :> "Good employee recognition and appreciation practices"
  @@ "compensation" :> "Competitive compensation and benefits package"
  @@ "equity" :> "Attractive equity and stock options"
  @@ "healthcare" :> "Comprehensive healthcare and wellness benefits"
  @@ "retirement" :> "Strong retirement and financial benefits"
  @@ "perks" :> "Valuable workplace perks and amenities"
  @@ "work_life_balance" :> "Good work-life balance and flexible scheduling"
  @@ "remote_work" :> "Effective remote work policies and support"
  @@ "time_off" :> "Generous vacation and time-off policies"
  @@ "workload" :> "Manageable workload and reasonable expectations"
  @@ "flexibility" :> "Flexible work arrangements and scheduling"
  @@ "career_growth" :> "Excellent career growth and learning opportunities"
  @@ "training" :> "Comprehensive training and development programs"
  @@ "skills_development" :> "Strong focus on skills development and learning"
  @@ "promotion" :> "Clear promotion paths and advancement opportunities"
  @@ "education" :> "Good educational benefits and learning resources"
  @@ "innovation" :> "Strong focus on innovation and modern technologies"
  @@ "project_variety" :> "Diverse and interesting project opportunities"
  @@ "creativity" :> "Encouragement of creativity and new ideas"
  @@ "tools" :> "Access to modern tools and technologies"
  @@ "autonomy" :> "High degree of autonomy and decision-making freedom"
  @@ "office_environment" :> "Well-designed and comfortable office space"
  @@ "equipment" :> "High-quality equipment and resources"
  @@ "location" :> "Convenient office location and accessibility"
  @@ "facilities" :> "Great office facilities and amenities"
  @@ "safety" :> "Strong workplace safety and security measures"
  @@ "team_quality" :> "High-caliber colleagues and strong team dynamics"
  @@ "peer_support" :> "Supportive peer relationships and teamwork"
  @@ "team_spirit" :> "Strong team spirit and camaraderie"
  @@ "knowledge_sharing" :> "Good knowledge sharing and collaboration"
  @@ "team_diversity" :> "Diverse and inclusive team composition"
  @@ "company_stability" :> "Strong company stability and market position"
  @@ "growth_potential" :> "Excellent company growth and future prospects"
  @@ "job_security" :> "Good job security and stability"
  @@ "market_position" :> "Strong market presence and industry standing"
  @@ "financial_health" :> "Solid financial performance and stability"
  @@ "client_relations" :> "Positive client relationships and interactions"
  @@ "project_management" :> "Effective project management practices"
  @@ "deadlines" :> "Reasonable deadlines and project timelines"
  @@ "client_quality" :> "High-quality clients and project opportunities"
  @@ "workflow" :> "Efficient workflow and processes"

\* tt.py: theme_texts of _generate_theme_text
tt_theme_texts ==
  "work_culture" :> "Company culture and work environment"
  @@ "leadership" :> "Leadership and management approach"
  @@ "compensation" :> "Compensation and benefits package"
  @@ "work_life_balance" :> "Work-life balance practices"
  @@ "career_growth" :> "Career development opportunities"
  @@ "innovation" :> "Innovation and technological advancement"
  @@ "work_structure" :> "Organizational structure and processes"
  @@ "company_size" :> "Company size and operational scale"
  @@ "industry_position" :> "Position within the industry"
  @@ "market_focus" :> "Market focus and business approach"
  @@ "project_complexity" :> "Project scope and complexity"
  @@ "team_structure" :> "Team organization and dynamics"
  @@ "communication_style" :> "Communication patterns and practices"
  @@ "decision_making" :> "Decision-making processes"
  @@ "change_management" :> "Approach to change and adaptation"
  @@ "work_pace" :> "Work pace and delivery expectations"
\* ------------------------------------------------------------------------
\* _analyze_numeric_ratings: the set of <<theme, sentiment>> items of the
\* dict it returns (the four fields map to four different themes).
\* ------------------------------------------------------------------------

\* rev2_rating_verdict with > in place of >=
rev2_rating_verdict_above(rating) ==
  IF rating > RATING_THRESHOLD_HIGH THEN "positive"
  ELSE IF rating <= RATING_THRESHOLD_LOW THEN "negative"
  ELSE "none"

rev2_rating_verdict(rating) ==
  IF rating >= RATING_THRESHOLD_HIGH THEN "positive"
  ELSE IF rating <= RATING_THRESHOLD_LOW THEN "negative"
  ELSE "none"

\* tt_rating_verdict that is positive only at the threshold itself
tt_rating_verdict_at_threshold(rating) ==
  IF rating = RATING_THRESHOLD_HIGH THEN "positive"
  ELSE IF rating <= RATING_THRESHOLD_LOW THEN "negative"
  ELSE "neutral"

tt_rating_verdict(rating) ==
  IF rating >= RATING_THRESHOLD_HIGH THEN "positive"
  ELSE IF rating <= RATING_THRESHOLD_LOW THEN "negative"
  ELSE "neutral"

rev2_analyze_numeric_ratings(review) ==
  {<<rating_fields[k][2], rev2_rating_verdict(review[rating_fields[k][1]].num)>> :
     k \in {j \in 1..Len(rating_fields) :
              /\ has(review, rating_fields[j][1])
              /\ review[rating_fields[j][1]].kind = "num"
              /\ rev2_rating_verdict(review[rating_fields[j][1]].num) # "none"}}

\* tt_analyze_numeric_ratings without the isinstance test of line 71
tt_analyze_numeric_ratings_untyped(review) ==
  {<<rating_fields[k][2], tt_rating_verdict(review[rating_fields[k][1]].num)>> :
     k \in {j \in 1..Len(rating_fields) : has(review, rating_fields[j][1])}}

tt_analyze_numeric_ratings(review) ==
  {<<rating_fields[k][2], tt_rating_verdict(review[rating_fields[k][1]].num)>> :
     k \in {j \in 1..Len(rating_fields) :
              /\ has(review, rating_fields[j][1])
              /\ review[rating_fields[j][1]].kind = "num"}}

analyze_numeric_ratings(version, review) ==
  IF version = "rev2" THEN rev2_analyze_numeric_ratings(review)
  ELSE tt_analyze_numeric_ratings(review)

\* ------------------------------------------------------------------------
\* _analyze_salary_range.  Every exception inside the try block (a value
\* without split or lower, int('')) is caught and gives 'neutral'.
\* ------------------------------------------------------------------------

\* the parts of the range, digits only; the comprehension raises when the
\* range is no str or a part holds no digit
salary_parts(salary_range) ==
  LET parts == split(salary_range.str, "-")
  IN [k \in 1..Len(parts) |-> filter_isdigit(parts[k])]

\* salary_raises with int('') giving 0 in place of raising ValueError
salary_raises_type_only(salary_range) ==
  salary_range.kind # "str"

salary_raises(salary_range) ==
  \/ salary_range.kind # "str"
  \/ \E k \in 1..Len(salary_parts(salary_range)) : Len(salary_parts(salary_range)[k]) = 0

rev2_analyze_salary_range(salary_range, currency) ==
  IF ~truthy(salary_range) \/ ~truthy(currency) THEN "neutral"
  ELSE IF salary_raises(salary_range) THEN "neutral"
  ELSE LET values == [k \in 1..Len(salary_parts(salary_range)) |->
                        int(salary_parts(salary_range)[k])]
       IN IF Len(values) = 2
          THEN \* avg_salary = sum(values) / 2, compared without the division
               IF values[1] + values[2] > 2 * 100000 THEN "positive"
               ELSE IF values[1] + values[2] < 2 * 50000 THEN "negative"
               ELSE "neutral"
          ELSE "neutral"

tt_analyze_salary_range(salary_range, currency, location) ==
  IF ~truthy(salary_range) \/ ~truthy(currency) THEN "neutral"
  ELSE IF salary_raises(salary_range) THEN "neutral"
  ELSE LET values == [k \in 1..Len(salary_parts(salary_range)) |->
                        int(salary_parts(salary_range)[k])]
       IN IF Len(values) = 2
          THEN IF truthy(location) /\ location.kind # "str"
               THEN "neutral"   \* location.lower() raises inside the try
               ELSE LET remote == truthy(location) /\ contains("remote", lower(location.str))
                        high_threshold == IF remote THEN 90000 ELSE 100000
                        low_threshold == IF remote THEN 45000 ELSE 50000
                    IN IF values[1] + values[2] > 2 * high_threshold THEN "positive"
                       ELSE IF values[1] + values[2] < 2 * low_threshold THEN "negative"
                       ELSE "neutral"
          ELSE "neutral"

\* ------------------------------------------------------------------------
\* _analyze_text.  The scorer self.sia is external: sia[text] is what
\* polarity_scores(text) does, [raises |-> TRUE] or a compound score in
\* hundredths.  The result says whether the call raised.
\* ------------------------------------------------------------------------

\* compound >= 0.05 and compound <= -0.05, in hundredths
COMPOUND_THRESHOLD == 5

\* detected_sentiment with > and < in place of >= and <=
detected_sentiment_strict(compound) ==
  IF compound > COMPOUND_THRESHOLD THEN "positive"
  ELSE IF compound < -COMPOUND_THRESHOLD THEN "negative"
  ELSE "neutral"

detected_sentiment(compound) ==
  IF compound >= COMPOUND_THRESHOLD THEN "positive"
  ELSE IF compound <= -COMPOUND_THRESHOLD THEN "negative"
  ELSE "neutral"

\* rev2.py: themes is the list identified_themes
rev2_analyze_text(scorer, text) ==
  IF ~truthy(text) THEN [raised |-> FALSE, themes |-> <<>>, sentiment |-> "neutral"]
  ELSE IF text.kind # "str" \/ scorer[text.str].raises
  THEN [raised |-> TRUE, themes |-> <<>>, sentiment |-> "neutral"]
  ELSE LET text_lower == lower(text.str)
       IN [raised |-> FALSE,
           themes |-> SelectSeq(rev2_theme_order,
                        LAMBDA theme : \E keyword \in rev2_themes[theme] :
                                          contains(keyword, text_lower)),
           sentiment |-> detected_sentiment(scorer[text.str].compound)]

\* tt.py: themes is identified_themes as the list of its <<sentiment, theme>>
\* appends; sentiment is overall_sentiment
tt_analyze_text(scorer, text) ==
  IF ~truthy(text) THEN [raised |-> FALSE, themes |-> <<>>, sentiment |-> "neutral"]
  ELSE IF text.kind # "str" \/ scorer[text.str].raises
  THEN [raised |-> TRUE, themes |-> <<>>, sentiment |-> "neutral"]
  ELSE LET text_lower == lower(text.str)
           pairs == [k \in 1..(3 * Len(tt_theme_order)) |->
                       <<Polarities[((k - 1) % 3) + 1], tt_theme_order[((k - 1) \div 3) + 1]>>]
       IN [raised |-> FALSE,
           themes |-> SelectSeq(pairs,
                        LAMBDA p : \E keyword \in tt_themes[p[2]][p[1]] :
                                      contains(keyword, text_lower)),
           sentiment |-> detected_sentiment(scorer[text.str].compound)]

\* ------------------------------------------------------------------------
\* analyze_review.  appends is every result[sentiment].append(theme) the
\* call makes, in order, as <<sentiment, theme>>; the result's lists are
\* sorted(list(set(...))) of them.
\* ------------------------------------------------------------------------

text_fields == <<"headline", "pros", "cons">>

AllThemes == Range(rev2_theme_order)

\* rev2_field_sentiments with "if field == 'cons'" in place of the elif: a theme
\* of pros is appended to positive and, by the else branch, to the detected sentiment
rev2_field_sentiments_fallthrough(field, sentiment) ==
  IF field = "pros" THEN {"positive", sentiment}
  ELSE IF field = "cons" THEN {"negative"}
  ELSE {sentiment}

\* the sentiments a theme found in `field` is appended to, given the sentiment
\* _analyze_text detected for the text
rev2_field_sentiments(field, sentiment) ==
  IF field = "pros" THEN {"positive"}
  ELSE IF field = "cons" THEN {"negative"}
  ELSE {sentiment}

\* tt.py: forced_sentiment of text_fields, "" for None
tt_forced_sentiment(field) ==
  IF field = "pros" THEN "positive"
  ELSE IF field = "cons" THEN "negative"
  ELSE ""

\* tt_field_sentiment that never forces: always result[sentiment].append(theme)
tt_field_sentiment_unforced(field, matched_sentiment) == matched_sentiment

\* the sentiment a theme that matched under matched_sentiment is appended to
tt_field_sentiment(field, matched_sentiment) ==
  IF tt_forced_sentiment(field) # "" THEN tt_forced_sentiment(field)
  ELSE matched_sentiment

\* if field in review and review[field]
text_used(review, field) == has(review, field) /\ truthy(review[field])

\* bucket without the sort: the themes in the order of the catalog
bucket_unsorted(appends, sentiment) ==
  SelectSeq(rev2_theme_order, LAMBDA theme : <<sentiment, theme>> \in appends)

\* result[sentiment] = sorted(list(set(result[sentiment])))
bucket(appends, sentiment) ==
  sorted_set({p[2] : p \in {q \in appends : q[1] = sentiment}})

\* what a call of analyze_review gives: it raised, or the three sorted lists
finish_review(raised, appends) ==
  [raised |-> raised,
   positive |-> IF raised THEN <<>> ELSE bucket(appends, "positive"),
   negative |-> IF raised THEN <<>> ELSE bucket(appends, "negative"),
   neutral |-> IF raised THEN <<>> ELSE bucket(appends, "neutral")]

rev2_salary_appends(review) ==
  IF has(review, "compensation_range") /\ has(review, "currency")
  THEN {<<rev2_analyze_salary_range(review["compensation_range"], review["currency"]),
          "compensation">>}
  ELSE {}

tt_salary_appends(review) ==
  IF has(review, "compensation_range")
  THEN {<<tt_analyze_salary_range(
            review["compensation_range"],
            IF has(review, "currency") THEN review["currency"] ELSE Str("USD"),
            IF has(review, "location") THEN review["location"] ELSE Other(FALSE)),
          "compensation">>}
  ELSE {}

\* salary_sentiment of analyze_review, "" when _analyze_salary_range is not called
salary_sentiment_of(version, review) ==
  LET appends == IF version = "rev2" THEN rev2_salary_appends(review)
                 ELSE tt_salary_appends(review)
  IN IF appends = {} THEN "" ELSE (CHOOSE p \in appends : TRUE)[1]

rev2_text_appends(scorer, review, field) ==
  IF ~text_used(review, field) THEN {}
  ELSE LET a == rev2_analyze_text(scorer, review[field])
       IN UNION {{<<s, theme>> : s \in rev2_field_sentiments(field, a.sentiment)} :
                   theme \in Range(a.themes)}

\* tt_text_appends whose headline themes go to the detected sentiment
tt_text_appends_detected(scorer, review, field) ==
  IF ~text_used(review, field) THEN {}
  ELSE LET a == tt_analyze_text(scorer, review[field])
       IN {<<IF field = "headline" THEN a.sentiment ELSE tt_field_sentiment(field, p[1]),
             p[2]>> : p \in Range(a.themes)}

tt_text_appends(scorer, review, field) ==
  IF ~text_used(review, field) THEN {}
  ELSE LET a == tt_analyze_text(scorer, review[field])
       IN {<<tt_field_sentiment(field, p[1]), p[2]>> : p \in Range(a.themes)}

rev2_analyze_review(scorer, review) ==
  LET raised == \E field \in Range(text_fields) :
                   /\ text_used(review, field)
                   /\ rev2_analyze_text(scorer, review[field]).raised
  IN finish_review(raised,
       IF raised THEN {}
       ELSE {<<p[2], p[1]>> : p \in rev2_analyze_numeric_ratings(review)}
            \cup rev2_salary_appends(review)
            \cup UNION {rev2_text_appends(scorer, review, field) :
                          field \in Range(text_fields)})

tt_analyze_review(scorer, review) ==
  LET raised == \E field \in Range(text_fields) :
                   /\ text_used(review, field)
                   /\ tt_analyze_text(scorer, review[field]).raised
  IN finish_review(raised,
       IF raised THEN {}
       ELSE {<<p[2], p[1]>> : p \in tt_analyze_numeric_ratings(review)}
            \cup tt_salary_appends(review)
            \cup UNION {tt_text_appends(scorer, review, field) :
                          field \in Range(text_fields)})

analyze_review(version, scorer, review) ==
  IF version = "rev2" THEN rev2_analyze_review(scorer, review)
  ELSE tt_analyze_review(scorer, review)

\* ------------------------------------------------------------------------
\* Inputs.
\* ------------------------------------------------------------------------

Texts == {"Great benefits", "low salary", "Poor management"}

\* two scorers: what polarity_scores does for each text
SiaA ==
  "Great benefits" :> [raises |-> FALSE, compound |-> 5]
  @@ "low salary" :> [raises |-> FALSE, compound |-> -5]
  @@ "Poor management" :> [raises |-> FALSE, compound |-> -4]
  @@ "excellent benefits" :> [raises |-> FALSE, compound |-> 80]
  @@ "tight deadlines" :> [raises |-> FALSE, compound |-> 0]

SiaB ==
  "Great benefits" :> [raises |-> FALSE, compound |-> 4]
  @@ "low salary" :> [raises |-> TRUE, compound |-> 0]
  @@ "Poor management" :> [raises |-> FALSE, compound |-> 62]
  @@ "excellent benefits" :> [raises |-> FALSE, compound |-> -50]
  @@ "tight deadlines" :> [raises |-> FALSE, compound |-> -60]

Scorers == {SiaA, SiaB}

NoReview ==
  [work_life_balance |-> Absent, career_growth |-> Absent,
   leadership_management |-> Absent, innovation |-> Absent,
   compensation_range |-> Absent, currency |-> Absent, location |-> Absent,
   headline |-> Absent, pros |-> Absent, cons |-> Absent]

RatingValues == {Absent, Str("high"), Other(FALSE)} \cup {Num(n) : n \in 0..MaxRating}

RatingCore == {Absent, Str("high"), Num(4), Num(5), Num(7)}

RangeValues ==
  {Absent, Str(""), Str("not-a-range"), Str("150000-200000"), Str("$40,000 - $50,000"),
   Str("90000-110000"), Str("85000-100000"), Str("50000-100000-150000"), Str("-5000"),
   Str("150000"), Str("80000-100000"), Str("40000-60000"), Str("99999-100002"),
   Other(TRUE)}

CurrencyValues == {Absent, Str(""), Str("USD"), Str("EUR")}

LocationValues ==
  {Absent, Str("Remote"), Str("Hybrid/REMOTE"), Str("Berlin"), Other(TRUE)}

TextValues == {Absent, Str(""), Other(TRUE)} \cup {Str(t) : t \in Texts}

RatingReviews ==
  {[NoReview EXCEPT !["work_life_balance"] = a, !["career_growth"] = b,
                    !["leadership_management"] = c, !["innovation"] = d] :
     a \in RatingValues, b \in RatingCore, c \in RatingCore, d \in {Absent, Num(9)}}

SalaryReviews ==
  {[NoReview EXCEPT !["compensation_range"] = a, !["currency"] = b, !["location"] = c,
                    !["work_life_balance"] = d] :
     a \in RangeValues, b \in CurrencyValues, c \in LocationValues, d \in {Absent, Num(9)}}

TextReviews ==
  {[NoReview EXCEPT !["headline"] = a, !["pros"] = b, !["cons"] = c,
                    !["leadership_management"] = d, !["compensation_range"] = e,
                    !["currency"] = Str("USD")] :
     a \in TextValues, b \in TextValues, c \in TextValues, d \in {Absent, Num(8)},
     e \in {Absent, Str("150000-200000"), Str("not-a-range")}}

\* the review of the end-to-end example
ExampleReview ==
  [NoReview EXCEPT !["work_life_balance"] = Num(9), !["career_growth"] = Num(8),
                   !["leadership_management"] = Num(7), !["innovation"] = Num(9),
                   !["compensation_range"] = Str("150000-200000"),
                   !["currency"] = Str("USD"),
                   !["pros"] = Str("excellent benefits"),
                   !["cons"] = Str("tight deadlines")]

ReviewInputs == RatingReviews \cup SalaryReviews \cup TextReviews \cup {ExampleReview}

\* the reviews batches are made of
Pool ==
  {[NoReview EXCEPT !["work_life_balance"] = Num(9),
                    !["compensation_range"] = Str("150000-200000"),
                    !["currency"] = Str("USD")],
   [NoReview EXCEPT !["leadership_management"] = Num(3),
                    !["compensation_range"] = Str("90000-110000"),
                    !["currency"] = Str("USD")],
   [NoReview EXCEPT !["pros"] = Str("low salary"), !["cons"] = Str("low salary"),
                    !["compensation_range"] = Str("90000-110000"),
                    !["currency"] = Str("USD")]}

RECURSIVE BatchesOfLen(_)
BatchesOfLen(n) ==
  IF n = 0 THEN {<<>>}
  ELSE {Append(b, r) : b \in BatchesOfLen(n - 1), r \in Pool}

Batches == UNION {BatchesOfLen(n) : n \in 0..MaxBatch}


\* Length of the batches of SpecLarge.
LargeBatch == 20

\* a review that holds compensation in its pros, one in its cons, one in both
ProsReview == [NoReview EXCEPT !["pros"] = Str("low salary")]

ConsReview == [NoReview EXCEPT !["cons"] = Str("low salary")]

BothReview == [NoReview EXCEPT !["pros"] = Str("low salary"), !["cons"] = Str("low salary")]

\* a review that holds compensation under neutral only, by its salary range
NeutralReview ==
  [NoReview EXCEPT !["compensation_range"] = Str("90000-110000"),
                   !["currency"] = Str("USD")]

\* the batches of LargeBatch reviews in which every review holds compensation,
\* in its pros, in its cons or in both
DenseBatches ==
  {[k \in 1..a |-> ProsReview] \o [k \in 1..b |-> ConsReview]
     \o [k \in 1..(LargeBatch - a - b) |-> BothReview] :
   <<a, b>> \in {ab \in (0..LargeBatch) \X (0..LargeBatch) : ab[1] + ab[2] <= LargeBatch}}

\* Most reviews of a sparse batch that hold compensation under one polarity.
MaxHeld == 6

\* the batches of LargeBatch reviews in which up to MaxHeld reviews hold
\* compensation under each polarity and the other reviews hold no theme
SparseBatches ==
  {[k \in 1..a |-> ProsReview] \o [k \in 1..b |-> ConsReview]
     \o [k \in 1..d |-> NeutralReview]
     \o [k \in 1..(LargeBatch - a - b - d) |-> NoReview] :
   <<a, b, d>> \in {abd \in (0..MaxHeld) \X (0..MaxHeld) \X (0..MaxHeld) :
                      abd[1] + abd[2] + abd[3] <= LargeBatch}}

LargeBatches == DenseBatches \cup SparseBatches

\* ------------------------------------------------------------------------
\* Python floats.  The percentages of generate_summary are IEEE 754 doubles:
\* (count / total_reviews) * 100 rounds twice, to 53 significant bits and to
\* nearest, ties to even.  A percentage is <<i, f1, f2>>, the double
\* i + f1 / 2^26 + f2 / 2^52 with f1 and f2 below 2^26: 0.0 and every double
\* in [1, 2^53) are of this form, and a percentage of a count >= 1 over at
\* most 100 reviews is >= 1.
\* ------------------------------------------------------------------------

\* bits of a limb of the fraction of a percentage
LIMB_BITS == 26

LIMB == 2 ^ LIMB_BITS

\* half a limb: long division and multiplication go by 13 bits, so that no
\* intermediate number reaches 2^31
HALF_LIMB == 2 ^ (LIMB_BITS \div 2)

\* the number of bits of n >= 1
RECURSIVE bit_length(_)
bit_length(n) == IF n <= 1 THEN 1 ELSE 1 + bit_length(n \div 2)

\* the exact number i + f1 / 2^26 + f2 / 2^52 rounded to a double, to nearest
\* and ties to even: below 2 it is one; from 2^k on, k >= 1, the lowest k bits
\* of f2 are rounded away
float_round(v) ==
  IF v[1] < 2 THEN v
  ELSE LET q == 2 ^ (bit_length(v[1]) - 1)
           low == v[3] % q
           kept == v[3] - low
           up == \/ 2 * low > q
                 \/ 2 * low = q /\ (v[3] \div q) % 2 = 1
           f2 == IF up THEN kept + q ELSE kept
           f1 == v[2] + f2 \div LIMB
       IN <<v[1] + f1 \div LIMB, f1 % LIMB, f2 % LIMB>>

\* how often count is doubled to reach total_reviews
RECURSIVE doublings(_, _)
doublings(count, total_reviews) ==
  IF count >= total_reviews THEN 0 ELSE 1 + doublings(2 * count, total_reviews)

\* count / total_reviews for 0 < count <= total_reviews: the double
\* mant / 2^shift with mant in [1, 2].  The 52 bits of the fraction of mant
\* come from four steps of long division, 13 bits each; the remainder decides
\* the rounding.
float_quotient(count, total_reviews) ==
  LET t == total_reviews
      shift == doublings(count, t)
      r0 == count * 2 ^ shift - t
      d1 == (r0 * HALF_LIMB) \div t
      r1 == (r0 * HALF_LIMB) % t
      d2 == (r1 * HALF_LIMB) \div t
      r2 == (r1 * HALF_LIMB) % t
      d3 == (r2 * HALF_LIMB) \div t
      r3 == (r2 * HALF_LIMB) % t
      d4 == (r3 * HALF_LIMB) \div t
      r4 == (r3 * HALF_LIMB) % t
      up == 2 * r4 > t \/ (2 * r4 = t /\ d4 % 2 = 1)
      f2 == d3 * HALF_LIMB + d4 + (IF up THEN 1 ELSE 0)
      f1 == d1 * HALF_LIMB + d2 + f2 \div LIMB
  IN [mant |-> <<1 + f1 \div LIMB, f1 % LIMB, f2 % LIMB>>, shift |-> shift]

\* the exact number v * 100
times_100(v) ==
  LET a == 100 * (v[3] % HALF_LIMB)
      b == 100 * (v[3] \div HALF_LIMB) + a \div HALF_LIMB
      c == 100 * (v[2] % HALF_LIMB) + b \div HALF_LIMB
      d == 100 * (v[2] \div HALF_LIMB) + c \div HALF_LIMB
  IN <<100 * v[1] + d \div HALF_LIMB,
       (d % HALF_LIMB) * HALF_LIMB + (c % HALF_LIMB),
       (b % HALF_LIMB) * HALF_LIMB + (a % HALF_LIMB)>>

\* v / 2^shift, for a v of which the lowest `shift` bits are 0
halved(v, shift) ==
  LET q == 2 ^ shift
      up == 2 ^ (LIMB_BITS - shift)
  IN <<v[1] \div q,
       v[2] \div q + (v[1] % q) * up,
       v[3] \div q + (v[2] % q) * up>>

\* the quotient x times 100, as a double
percent(x) == halved(float_round(times_100(x.mant)), x.shift)

\* (count / total_reviews) * 100
float_pct(count, total_reviews) ==
  IF count = 0 THEN <<0, 0, 0>>
  ELSE percent(float_quotient(count, total_reviews))

\* x < y, x <= y and max, min of two percentages
float_lt(x, y) ==
  \/ x[1] < y[1]
  \/ x[1] = y[1] /\ x[2] < y[2]
  \/ x[1] = y[1] /\ x[2] = y[2] /\ x[3] < y[3]

float_ge(x, y) == ~float_lt(x, y)

float_max(x, y) == IF float_lt(x, y) THEN y ELSE x

float_min(x, y) == IF float_lt(y, x) THEN y ELSE x

\* float(n) of a small natural number
float_of(n) == <<n, 0, 0>>

\* x + y
float_add(x, y) ==
  LET f2 == x[3] + y[3]
      f1 == x[2] + y[2] + f2 \div LIMB
  IN float_round(<<x[1] + y[1] + f1 \div LIMB, f1 % LIMB, f2 % LIMB>>)

\* abs(x - y)
float_abs_diff(x, y) ==
  LET a == float_max(x, y)
      b == float_min(x, y)
      borrow2 == IF a[3] < b[3] THEN 1 ELSE 0
      f2 == a[3] - b[3] + borrow2 * LIMB
      borrow1 == IF a[2] - borrow2 < b[2] THEN 1 ELSE 0
      f1 == a[2] - borrow2 - b[2] + borrow1 * LIMB
  IN float_round(<<a[1] - borrow1 - b[1], f1, f2>>)
\* ------------------------------------------------------------------------
\* generate_summary.  The percentages are Python floats (float_pct).
\* ------------------------------------------------------------------------

\* rev2.py: a theme is included when max_pct >= 20
REV2_INCLUSION_PCT == 20

\* tt.py: a theme is included when percentage >= 15
TT_INCLUSION_PCT == 15

\* tt.py: max(pos_pct, neg_pct) < 30
TT_STRONG_PCT == 30

\* tt.py: abs(pos_pct - neg_pct) < 15
TT_MARGIN_PCT == 15

Max2(a, b) == IF a >= b THEN a ELSE b

Abs(a) == IF a >= 0 THEN a ELSE -a

\* add_analysis with "all_themes[sentiment][theme] = 1" in place of "+= 1"
add_analysis_assigning(tally, a) ==
  [s \in Range(Polarities) |->
     [t \in AllThemes |->
        IF t \in Range(a[s]) THEN 1 ELSE tally[s][t]]]

\* add_analysis that counts a theme of a review once, under the first of the
\* polarities that holds it
add_analysis_first_polarity(tally, a) ==
  [s \in Range(Polarities) |->
     [t \in AllThemes |->
        IF /\ t \in Range(a[s])
           /\ \A k \in 1..Len(Polarities) :
                (t \in Range(a[Polarities[k]])) =>
                   \A j \in 1..Len(Polarities) : Polarities[j] = s => j <= k
        THEN tally[s][t] + 1 ELSE tally[s][t]]]

\* all_themes[sentiment][theme] += 1 for every theme of every list of analysis
add_analysis(tally, a) ==
  [s \in Range(Polarities) |->
     [t \in AllThemes |->
        tally[s][t] + Cardinality({k \in 1..Len(a[s]) : a[s][k] = t})]]

\* all_unique_themes with "all_unique_themes = {'compensation'}" in place of
\* "all_unique_themes = set()"
all_unique_themes_seeded(tally) ==
  {t \in AllThemes : \E s \in Range(Polarities) : tally[s][t] > 0}
  \cup {"compensation"}

\* the keys of the three defaultdicts
all_unique_themes(tally) ==
  {t \in AllThemes : \E s \in Range(Polarities) : tally[s][t] > 0}

\* max(pos_pct, neg_pct, neu_pct)
max_pct_of(pos_pct, neg_pct, neu_pct) == float_max(pos_pct, float_max(neg_pct, neu_pct))

\* rev2.py: the dominant sentiment is the one whose percentage is max_pct,
\* positive before negative, when max_pct > 0
rev2_choice(pos_pct, neg_pct, neu_pct, max_pct, included) ==
  IF max_pct = pos_pct /\ float_lt(float_of(0), max_pct)
  THEN [dominant |-> "positive", percentage |-> pos_pct, included |-> included]
  ELSE IF max_pct = neg_pct /\ float_lt(float_of(0), max_pct)
  THEN [dominant |-> "negative", percentage |-> neg_pct, included |-> included]
  ELSE [dominant |-> "neutral", percentage |-> neu_pct, included |-> included]

\* rev2_choice with the negative test before the positive test
rev2_choice_negative_first(pos_pct, neg_pct, neu_pct, max_pct, included) ==
  IF max_pct = neg_pct /\ float_lt(float_of(0), max_pct)
  THEN [dominant |-> "negative", percentage |-> neg_pct, included |-> included]
  ELSE IF max_pct = pos_pct /\ float_lt(float_of(0), max_pct)
  THEN [dominant |-> "positive", percentage |-> pos_pct, included |-> included]
  ELSE [dominant |-> "neutral", percentage |-> neu_pct, included |-> included]

\* rev2_included with "if max_pct > 20" in place of "if max_pct >= 20"
rev2_included_above(pos_pct, neg_pct, neu_pct, max_pct) ==
  rev2_choice(pos_pct, neg_pct, neu_pct, max_pct,
              float_lt(float_of(REV2_INCLUSION_PCT), max_pct))

\* rev2.py: a theme is stored when max_pct >= 20
rev2_included(pos_pct, neg_pct, neu_pct, max_pct) ==
  rev2_choice(pos_pct, neg_pct, neu_pct, max_pct,
              float_ge(max_pct, float_of(REV2_INCLUSION_PCT)))

\* rev2_included with the negative test before the positive test
rev2_included_negative_first(pos_pct, neg_pct, neu_pct, max_pct) ==
  rev2_choice_negative_first(pos_pct, neg_pct, neu_pct, max_pct,
                             float_ge(max_pct, float_of(REV2_INCLUSION_PCT)))

\* rev2_percentages with "if max_pct > 20" in place of "if max_pct >= 20"
rev2_percentages_above(pos_pct, neg_pct, neu_pct) ==
  rev2_included_above(pos_pct, neg_pct, neu_pct,
                      max_pct_of(pos_pct, neg_pct, neu_pct))

\* rev2_percentages with the negative test before the positive test
rev2_percentages_negative_first(pos_pct, neg_pct, neu_pct) ==
  rev2_included_negative_first(pos_pct, neg_pct, neu_pct,
                               max_pct_of(pos_pct, neg_pct, neu_pct))

\* rev2.py: the entry of a theme with these three percentages
rev2_percentages(pos_pct, neg_pct, neu_pct) ==
  rev2_included(pos_pct, neg_pct, neu_pct, max_pct_of(pos_pct, neg_pct, neu_pct))

\* rev2_dominant with "if max_pct > 20" in place of "if max_pct >= 20"
rev2_dominant_above(pos_count, neg_count, neu_count, total_reviews) ==
  rev2_percentages_above(float_pct(pos_count, total_reviews),
                         float_pct(neg_count, total_reviews),
                         float_pct(neu_count, total_reviews))

\* rev2_dominant with the negative test before the positive test
rev2_dominant_negative_first(pos_count, neg_count, neu_count, total_reviews) ==
  rev2_percentages_negative_first(float_pct(pos_count, total_reviews),
                                  float_pct(neg_count, total_reviews),
                                  float_pct(neu_count, total_reviews))

\* rev2.py: (dominant, percentage) of one theme and whether it is stored in
\* theme_sentiments
rev2_dominant(pos_count, neg_count, neu_count, total_reviews) ==
  rev2_percentages(float_pct(pos_count, total_reviews),
                   float_pct(neg_count, total_reviews),
                   float_pct(neu_count, total_reviews))

\* tt.py: a theme is stored when percentage >= 15
tt_choice(dominant, percentage) ==
  [dominant |-> dominant, percentage |-> percentage,
   included |-> float_ge(percentage, float_of(TT_INCLUSION_PCT))]

\* tt.py: neutral when neither side is strong or the two are close, with
\* percentage neu_pct + min(pos_pct, neg_pct); else the larger side
tt_percentages(pos_pct, neg_pct, neu_pct) ==
  IF \/ float_lt(float_max(pos_pct, neg_pct), float_of(TT_STRONG_PCT))
     \/ float_lt(float_abs_diff(pos_pct, neg_pct), float_of(TT_MARGIN_PCT))
  THEN tt_choice("neutral", float_add(neu_pct, float_min(pos_pct, neg_pct)))
  ELSE IF float_lt(neg_pct, pos_pct)
  THEN tt_choice("positive", pos_pct)
  ELSE tt_choice("negative", neg_pct)

\* tt.py: (dominant, percentage) of one theme and whether it is stored in
\* theme_sentiments
tt_dominant(pos_count, neg_count, neu_count, total_reviews) ==
  tt_percentages(float_pct(pos_count, total_reviews),
                 float_pct(neg_count, total_reviews),
                 float_pct(neu_count, total_reviews))

dominant_of(version, tally, theme, total_reviews) ==
  IF version = "rev2"
  THEN rev2_dominant(tally["positive"][theme], tally["negative"][theme],
                     tally["neutral"][theme], total_reviews)
  ELSE tt_dominant(tally["positive"][theme], tally["negative"][theme],
                   tally["neutral"][theme], total_reviews)

\* f"{percentage:.1f}": the decimal with one digit after the point that is
\* nearest to the double, ties to even
format_1f(percentage) ==
  LET a == 10 * (percentage[3] % HALF_LIMB)
      b == 10 * (percentage[3] \div HALF_LIMB) + a \div HALF_LIMB
      c == 10 * (percentage[2] % HALF_LIMB) + b \div HALF_LIMB
      d == 10 * (percentage[2] \div HALF_LIMB) + c \div HALF_LIMB
      digit == d \div HALF_LIMB
      rest1 == (d % HALF_LIMB) * HALF_LIMB + (c % HALF_LIMB)
      rest2 == (b % HALF_LIMB) * HALF_LIMB + (a % HALF_LIMB)
      half == LIMB \div 2
      up == \/ rest1 > half
            \/ rest1 = half /\ rest2 > 0
            \/ rest1 = half /\ rest2 = 0 /\ digit % 2 = 1
      tenths == 10 * percentage[1] + digit + (IF up THEN 1 ELSE 0)
  IN ToString(tenths \div 10) \o "." \o ToString(tenths % 10)

\* theme.replace('_', ' ').title()
RECURSIVE title(_, _)
title(s, start_of_word) ==
  IF Len(s) = 0 THEN ""
  ELSE LET c == Char(s, 1)
           k == IndexIn(c, Lowers)
       IN IF c = "_" THEN " " \o title(SubSeq(s, 2, Len(s)), TRUE)
          ELSE (IF start_of_word /\ k > 0 THEN Char(Uppers, k) ELSE c)
               \o title(SubSeq(s, 2, Len(s)), FALSE)

theme_description(version, theme) ==
  LET theme_texts == IF version = "rev2" THEN rev2_theme_texts ELSE tt_theme_texts
  IN IF theme \in DOMAIN theme_texts THEN theme_texts[theme] ELSE title(theme, TRUE)

\* generate_theme_text with "{percentage:.0f}.0" in place of
\* "{percentage:.1f}"
generate_theme_text_whole(version, theme, percentage) ==
  theme_description(version, theme)
    \o " (" \o ToString(percentage[1]) \o ".0% of reviews)"

\* _generate_theme_text
generate_theme_text(version, theme, percentage) ==
  theme_description(version, theme)
    \o " (" \o format_1f(percentage) \o "% of reviews)"

\* str.rstrip(chars)
RECURSIVE rstrip(_, _)
rstrip(s, chars) ==
  IF Len(s) > 0 /\ IndexIn(Char(s, Len(s)), chars) > 0
  THEN rstrip(SubSeq(s, 1, Len(s) - 1), chars)
  ELSE s

\* float(s) for s = "<digits>.<digit>", in tenths
float_tenths(s) ==
  LET parts == split(s, ".")
  IN 10 * int(parts[1]) + int(parts[2])

\* the sort key: float(x.split('(')[1].rstrip('% of reviews)')), in tenths
sort_key(x) == float_tenths(rstrip(split(x, "(")[2], "% of reviews)"))

\* sorted(xs, key=sort_key, reverse=True): stable, equal keys keep their order
RECURSIVE sorted_reverse(_)
sorted_reverse(xs) ==
  IF Len(xs) = 0 THEN <<>>
  ELSE LET k == CHOOSE j \in 1..Len(xs) :
                   /\ \A m \in 1..Len(xs) : sort_key(xs[m]) <= sort_key(xs[j])
                   /\ \A m \in 1..(j - 1) : sort_key(xs[m]) < sort_key(xs[j])
       IN <<xs[k]>> \o sorted_reverse(SubSeq(xs, 1, k - 1) \o SubSeq(xs, k + 1, Len(xs)))

\* the orders in which a set can be iterated
RECURSIVE Orders(_)
Orders(S) ==
  IF S = {} THEN {<<>>}
  ELSE UNION {{<<x>> \o o : o \in Orders(S \ {x})} : x \in S}

\* theme_sentiments after the loop over all_unique_themes in iteration order
\* `order`: the items of the dict in insertion order
theme_sentiments_of(version, tally, total_reviews, order) ==
  LET entry(theme) ==
        LET d == dominant_of(version, tally, theme, total_reviews)
        IN [theme |-> theme, sentiment |-> d.dominant, percentage |-> d.percentage]
  IN [k \in 1..Len(SelectSeq(order,
                     LAMBDA theme : dominant_of(version, tally, theme, total_reviews).included))
        |-> entry(SelectSeq(order,
                     LAMBDA theme : dominant_of(version, tally, theme, total_reviews).included)[k])]

\* summary_of that gives every polarity the entries of all the themes
summary_of_every_polarity(version, ts, total_reviews) ==
  [s \in Range(Polarities) |->
     sorted_reverse([k \in 1..Len(ts) |->
          generate_theme_text(version, ts[k].theme, ts[k].percentage)])]

\* summary: per sentiment the rendered themes, then sorted by percentage
summary_of(version, ts, total_reviews) ==
  [s \in Range(Polarities) |->
     LET mine == SelectSeq(ts, LAMBDA e : e.sentiment = s)
     IN sorted_reverse([k \in 1..Len(mine) |->
          generate_theme_text(version, mine[k].theme, mine[k].percentage)])]


\* ------------------------------------------------------------------------
\* src/2yt.py: YouTubeClipper.
\* ------------------------------------------------------------------------

\* _get_video_info: "while tries < 3"
MAX_TRIES == 3

\* a field of a timestamp that strptime takes for %H, %M or %S: one or two
\* digits, at most `most`
time_field(s, most) ==
  /\ Len(s) \in {1, 2}
  /\ \A i \in 1..Len(s) : isdigit(Char(s, i))
  /\ int(s) <= most

\* datetime.strptime(timestamp, "%H:%M:%S") does not raise ValueError
strptime_hms(timestamp) ==
  LET parts == split(timestamp, ":")
  IN /\ Len(parts) = 3
     /\ time_field(parts[1], 23) /\ time_field(parts[2], 59) /\ time_field(parts[3], 59)

\* datetime.strptime(timestamp, "%M:%S") does not raise ValueError
strptime_ms(timestamp) ==
  LET parts == split(timestamp, ":")
  IN /\ Len(parts) = 2
     /\ time_field(parts[1], 59) /\ time_field(parts[2], 59)

\* _parse_timestamp: the seconds, or InvalidTimestampError
parse_timestamp(timestamp) ==
  LET parts == split(timestamp, ":")
  IN IF strptime_hms(timestamp)
     THEN [raised |-> "",
           seconds |-> int(parts[1]) * 3600 + int(parts[2]) * 60 + int(parts[3])]
     ELSE IF strptime_ms(timestamp)
     THEN [raised |-> "", seconds |-> int(parts[1]) * 60 + int(parts[2])]
     ELSE [raised |-> "InvalidTimestampError", seconds |-> 0]

\* _validate_timestamps: "" or the exception it raises
validate_timestamps(video_length, start, end) ==
  IF start >= end THEN "TimestampOutOfRangeError"
  ELSE IF start < 0 \/ end > video_length THEN "TimestampOutOfRangeError"
  ELSE ""

\* the exception that leaves the try statement of download_clip when e is
\* raised in its body: four classes are re-raised, any other is wrapped
leaving(e) ==
  IF e \in {"PrivateVideoError", "InvalidTimestampError", "TimestampOutOfRangeError",
            "VideoUnavailableError"}
  THEN e ELSE "YouTubeClipperError"

\* the videos: what pytube answers for each
VideoKinds == {"public", "private", "no_length", "unreachable"}

\* yt.length of the videos that have one, in seconds (a bound of the model)
VideoLength == 120

Timestamps == {"00:30", "01:45", "1:2:3", "00:00:10", "24:00:00", "2:30", "abc", "0:60"}

ClipperIdle ==
  /\ clip_pc = "idle"
  /\ video_kind = ""
  /\ start_time = ""
  /\ end_time = ""
  /\ tries = 0
  /\ info = ""
  /\ start_seconds = 0
  /\ end_seconds = 0
  /\ temp_path = FALSE
  /\ temp_file = FALSE
  /\ video = "none"
  /\ video_clip = "none"
  /\ exc = ""
  /\ cleanup_error = ""
  /\ outcome = ""

\* clipper.download_clip(video_url, start_time, end_time): lines 160-162
DownloadClip ==
  /\ clip_pc = "idle"
  /\ \E kind \in VideoKinds, s \in Timestamps, e \in Timestamps :
       /\ video_kind' = kind
       /\ start_time' = s
       /\ end_time' = e
  /\ clip_pc' = "get_video_info"
  /\ UNCHANGED <<tries, info, start_seconds, end_seconds, temp_path, temp_file, video,
               video_clip, exc, cleanup_error, outcome>>
  /\ UNCHANGED analyzer_vars

\* _get_video_info: yt = YouTube(video_url); tries = 0.  An exception of the
\* constructor is caught at line 141 and raised as VideoUnavailableError.
NewYouTube ==
  /\ clip_pc = "get_video_info"
  /\ tries' = 0
  /\ IF video_kind = "unreachable"
     THEN /\ info' = "VideoUnavailableError"
          /\ exc' = leaving(info')
          /\ clip_pc' = "close_clip"
     ELSE /\ clip_pc' = "attempt"
          /\ UNCHANGED <<info, exc>>
  /\ UNCHANGED <<video_kind, start_time, end_time, start_seconds, end_seconds, temp_path,
               temp_file, video, video_clip, cleanup_error, outcome>>
  /\ UNCHANGED analyzer_vars

\* _get_video_info: one turn of "while tries < 3".  Whatever is raised in the
\* turn, VideoUnavailableError for no length, PrivateVideoError for an empty
\* watch_html or an exception of pytube, is caught at line 135: tries += 1, and
\* at tries == 3 VideoUnavailableError is raised, caught at line 141 and raised
\* again as VideoUnavailableError.
Attempt ==
  /\ clip_pc = "attempt"
  /\ tries < MAX_TRIES
  /\ \E pytube_raises \in BOOLEAN :
       IF video_kind = "public" /\ ~pytube_raises
       THEN /\ info' = "yt"
            /\ clip_pc' = "parse"
            /\ UNCHANGED <<tries, exc>>
       ELSE /\ tries' = tries + 1
            /\ IF tries' = MAX_TRIES
               THEN /\ info' = "VideoUnavailableError"
                    /\ exc' = leaving(info')
                    /\ clip_pc' = "close_clip"
               ELSE UNCHANGED <<info, exc, clip_pc>>
  /\ UNCHANGED <<video_kind, start_time, end_time, start_seconds, end_seconds, temp_path,
               temp_file, video, video_clip, cleanup_error, outcome>>
  /\ UNCHANGED analyzer_vars

\* lines 170-174: the two _parse_timestamp calls and _validate_timestamps
ParseAndValidate ==
  /\ clip_pc = "parse"
  /\ LET s == parse_timestamp(start_time)
         e == parse_timestamp(end_time)
         raised == IF s.raised # "" THEN s.raised
                   ELSE IF e.raised # "" THEN e.raised
                   ELSE validate_timestamps(VideoLength, s.seconds, e.seconds)
     IN /\ start_seconds' = s.seconds
        /\ end_seconds' = IF s.raised # "" THEN end_seconds ELSE e.seconds
        /\ IF raised # ""
           THEN exc' = leaving(raised) /\ clip_pc' = "close_clip"
           ELSE exc' = exc /\ clip_pc' = "download"
  /\ UNCHANGED <<video_kind, start_time, end_time, tries, info, temp_path, temp_file, video,
               video_clip, cleanup_error, outcome>>
  /\ UNCHANGED analyzer_vars

\* lines 178-185: the stream and its download.  No stream, or an exception of
\* pytube, leaves temp_path None; a failed download can leave a partial file
Download ==
  /\ clip_pc = "download"
  /\ \E result \in {"no_stream", "raises", "raises_partial", "downloaded"} :
       /\ temp_path' = (result = "downloaded")
       /\ temp_file' = (result \in {"downloaded", "raises_partial"})
       /\ IF result = "downloaded"
          THEN exc' = exc /\ clip_pc' = "open"
          ELSE exc' = leaving("Exception") /\ clip_pc' = "close_clip"
  /\ UNCHANGED <<video_kind, start_time, end_time, tries, info, start_seconds, end_seconds,
               video, video_clip, cleanup_error, outcome>>
  /\ UNCHANGED analyzer_vars

\* line 189: video = VideoFileClip(temp_path)
OpenVideo ==
  /\ clip_pc = "open"
  /\ \E raises \in BOOLEAN :
       IF raises
       THEN exc' = leaving("Exception") /\ clip_pc' = "close_clip" /\ video' = video
       ELSE exc' = exc /\ clip_pc' = "subclip" /\ video' = "open"
  /\ UNCHANGED <<video_kind, start_time, end_time, tries, info, start_seconds, end_seconds,
               temp_path, temp_file, video_clip, cleanup_error, outcome>>
  /\ UNCHANGED analyzer_vars

\* line 190: video_clip = video.subclip(start_seconds, end_seconds)
Subclip ==
  /\ clip_pc = "subclip"
  /\ \E raises \in BOOLEAN :
       IF raises
       THEN exc' = leaving("Exception") /\ clip_pc' = "close_clip"
            /\ video_clip' = video_clip
       ELSE exc' = exc /\ clip_pc' = "write" /\ video_clip' = "open"
  /\ UNCHANGED <<video_kind, start_time, end_time, tries, info, start_seconds, end_seconds,
               temp_path, temp_file, video, cleanup_error, outcome>>
  /\ UNCHANGED analyzer_vars

\* lines 193-200: video_clip.write_videofile(output_path); return output_path
WriteVideofile ==
  /\ clip_pc = "write"
  /\ \E raises \in BOOLEAN :
       exc' = IF raises THEN leaving("Exception") ELSE exc
  /\ clip_pc' = "close_clip"
  /\ UNCHANGED <<video_kind, start_time, end_time, tries, info, start_seconds, end_seconds,
               temp_path, temp_file, video, video_clip, cleanup_error, outcome>>
  /\ UNCHANGED analyzer_vars

\* finally, lines 209-210: if video_clip: video_clip.close().  An exception is
\* caught at line 215 and logged, and the rest of the cleanup is not run.
CloseClip ==
  /\ clip_pc = "close_clip"
  /\ IF video_clip = "none"
     THEN /\ clip_pc' = "close_video"
          /\ UNCHANGED <<video_clip, cleanup_error>>
     ELSE \E raises \in BOOLEAN :
            IF raises
            THEN /\ cleanup_error' = "video_clip.close"
                 /\ clip_pc' = "end"
                 /\ UNCHANGED video_clip
            ELSE /\ video_clip' = "closed"
                 /\ clip_pc' = "close_video"
                 /\ UNCHANGED cleanup_error
  /\ UNCHANGED <<video_kind, start_time, end_time, tries, info, start_seconds, end_seconds,
               temp_path, temp_file, video, exc, outcome>>
  /\ UNCHANGED analyzer_vars

\* finally, lines 211-212: if video: video.close()
CloseVideo ==
  /\ clip_pc = "close_video"
  /\ IF video = "none"
     THEN /\ clip_pc' = "remove"
          /\ UNCHANGED <<video, cleanup_error>>
     ELSE \E raises \in BOOLEAN :
            IF raises
            THEN /\ cleanup_error' = "video.close"
                 /\ clip_pc' = "end"
                 /\ UNCHANGED video
            ELSE /\ video' = "closed"
                 /\ clip_pc' = "remove"
                 /\ UNCHANGED cleanup_error
  /\ UNCHANGED <<video_kind, start_time, end_time, tries, info, start_seconds, end_seconds,
               temp_path, temp_file, video_clip, exc, outcome>>
  /\ UNCHANGED analyzer_vars

\* finally, lines 213-214: if temp_path and os.path.exists(temp_path):
\* os.remove(temp_path)
RemoveTemp ==
  /\ clip_pc = "remove"
  /\ IF temp_path /\ temp_file
     THEN \E raises \in BOOLEAN :
            IF raises
            THEN cleanup_error' = "os.remove" /\ UNCHANGED temp_file
            ELSE temp_file' = FALSE /\ UNCHANGED cleanup_error
     ELSE UNCHANGED <<temp_file, cleanup_error>>
  /\ clip_pc' = "end"
  /\ UNCHANGED <<video_kind, start_time, end_time, tries, info, start_seconds, end_seconds,
               temp_path, video, video_clip, exc, outcome>>
  /\ UNCHANGED analyzer_vars

\* the call ends: the exception that left the try statement is raised, or
\* output_path is returned
EndDownloadClip ==
  /\ clip_pc = "end"
  /\ outcome' = IF exc # "" THEN exc ELSE "returned"
  /\ clip_pc' = "ended"
  /\ UNCHANGED <<video_kind, start_time, end_time, tries, info, start_seconds, end_seconds,
               temp_path, temp_file, video, video_clip, exc, cleanup_error>>
  /\ UNCHANGED analyzer_vars
\* ------------------------------------------------------------------------
\* The analyzer object and the calls made on it.
\* ------------------------------------------------------------------------

EmptyResult == [raised |-> FALSE, positive |-> <<>>, negative |-> <<>>, neutral |-> <<>>]

EmptySummary == [positive |-> <<>>, negative |-> <<>>, neutral |-> <<>>]

ZeroTally == [s \in Range(Polarities) |-> [t \in AllThemes |-> 0]]

\* __init__: the analyzer is one of the two versions, with a scorer
Init ==
  /\ impl \in {"rev2", "tt"}
  /\ sia \in Scorers
  /\ op = "none"
  /\ reviews = <<>>
  /\ pc = "idle"
  /\ idx = 0
  /\ all_themes = ZeroTally
  /\ rating_themes = {}
  /\ salary_sentiment = ""
  /\ analysis = EmptyResult
  /\ analyses = <<>>
  /\ theme_sentiments = <<>>
  /\ summary = EmptySummary
  /\ calls = 0
  /\ ClipperIdle

\* analyzer.analyze_review(review), for a review of the given set
AnalyzeReviewOf(inputs) ==
  /\ pc = "idle"
  /\ \E review \in inputs :
       /\ reviews' = <<review>>
       /\ rating_themes' = analyze_numeric_ratings(impl, review)
       /\ salary_sentiment' = salary_sentiment_of(impl, review)
       /\ analysis' = analyze_review(impl, sia, review)
       /\ pc' = IF analysis'.raised THEN "raised" ELSE "returned"
  /\ op' = "analyze_review"
  /\ UNCHANGED <<impl, sia, idx, all_themes, analyses, theme_sentiments, summary, calls>>
  /\ UNCHANGED clipper_vars

AnalyzeReview == AnalyzeReviewOf(ReviewInputs)

\* the tallies of the call before, in place of new ones
kept_tally == all_themes

\* all_themes = {'positive': defaultdict(int), ...}
created_tally == ZeroTally

\* analyzer.generate_summary(batch), for a batch of the given set: the tallies
\* are created empty
GenerateSummaryOf(batches) ==
  /\ pc = "idle"
  /\ \E batch \in batches : reviews' = batch
  /\ op' = "generate_summary"
  /\ pc' = "tally"
  /\ idx' = 1
  /\ all_themes' = created_tally
  /\ analyses' = <<>>
  /\ UNCHANGED <<impl, sia, rating_themes, salary_sentiment, analysis, theme_sentiments,
               summary, calls>>
  /\ UNCHANGED clipper_vars

GenerateSummary == GenerateSummaryOf(Batches)

\* one turn of "for review in reviews"; an exception of analyze_review leaves
\* generate_summary
TallyReview ==
  /\ pc = "tally"
  /\ idx <= Len(reviews)
  /\ rating_themes' = analyze_numeric_ratings(impl, reviews[idx])
  /\ salary_sentiment' = salary_sentiment_of(impl, reviews[idx])
  /\ analysis' = analyze_review(impl, sia, reviews[idx])
  /\ IF analysis'.raised
     THEN pc' = "raised" /\ UNCHANGED <<idx, all_themes, analyses>>
     ELSE /\ pc' = "tally"
          /\ idx' = idx + 1
          /\ analyses' = Append(analyses, analysis')
          /\ all_themes' = add_analysis(all_themes, analysis')
  /\ UNCHANGED <<impl, sia, op, reviews, theme_sentiments, summary, calls>>
  /\ UNCHANGED clipper_vars

\* the rest of generate_summary: the loop over the set all_unique_themes, in
\* whichever order the set yields its themes, the rendering and the sort.
\* Dividing by total_reviews = 0 raises ZeroDivisionError.
Summarize ==
  /\ pc = "tally"
  /\ idx > Len(reviews)
  /\ IF Len(reviews) = 0 /\ all_unique_themes(all_themes) # {}
     THEN pc' = "raised" /\ UNCHANGED <<theme_sentiments, summary>>
     ELSE \E order \in Orders(all_unique_themes(all_themes)) :
            /\ theme_sentiments' =
                 theme_sentiments_of(impl, all_themes, Len(reviews), order)
            /\ summary' = summary_of(impl, theme_sentiments', Len(reviews))
            /\ pc' = "returned"
  /\ UNCHANGED <<impl, sia, op, reviews, idx, all_themes, rating_themes, salary_sentiment,
               analysis, analyses, calls>>
  /\ UNCHANGED clipper_vars

Next == AnalyzeReview \/ GenerateSummary \/ TallyReview \/ Summarize

Spec == Init /\ [][Next]_vars

\* ------------------------------------------------------------------------
\* A sequence of calls on one analyzer.
\* ------------------------------------------------------------------------

\* The number of calls after which no further call is made.
MaxCalls == 2

\* Longest batch of a call of the sequence.
MaxCallBatch == 1

\* the call has returned or raised and the caller goes on: the analyzer object
\* is as the call left it, and so is everything else
CallEnds ==
  /\ pc \in {"returned", "raised"}
  /\ calls < MaxCalls
  /\ calls' = calls + 1
  /\ pc' = "idle"
  /\ UNCHANGED <<impl, sia, op, reviews, idx, all_themes, rating_themes, salary_sentiment,
               analysis, analyses, theme_sentiments, summary>>
  /\ UNCHANGED clipper_vars

NextCalls ==
  \/ AnalyzeReviewOf(Pool)
  \/ GenerateSummaryOf(UNION {BatchesOfLen(n) : n \in 0..MaxCallBatch})
  \/ TallyReview
  \/ Summarize
  \/ CallEnds

SpecCalls == Init /\ [][NextCalls]_vars

\* ------------------------------------------------------------------------
\* generate_summary on a long batch.
\* ------------------------------------------------------------------------

NextLarge == GenerateSummaryOf(LargeBatches) \/ TallyReview \/ Summarize

SpecLarge == Init /\ [][NextLarge]_vars

\* ------------------------------------------------------------------------
\* YouTubeClipper.download_clip.
\* ------------------------------------------------------------------------

\* clipper = YouTubeClipper(output_dir)
InitClip ==
  /\ impl = "rev2"
  /\ sia = SiaA
  /\ op = "none"
  /\ reviews = <<>>
  /\ pc = "idle"
  /\ idx = 0
  /\ all_themes = ZeroTally
  /\ rating_themes = {}
  /\ salary_sentiment = ""
  /\ analysis = EmptyResult
  /\ analyses = <<>>
  /\ theme_sentiments = <<>>
  /\ summary = EmptySummary
  /\ calls = 0
  /\ ClipperIdle

NextClip ==
  \/ DownloadClip
  \/ NewYouTube
  \/ Attempt
  \/ ParseAndValidate
  \/ Download
  \/ OpenVideo
  \/ Subclip
  \/ WriteVideofile
  \/ CloseClip
  \/ CloseVideo
  \/ RemoveTemp
  \/ EndDownloadClip

SpecClip == InitClip /\ [][NextClip]_vars
\* ------------------------------------------------------------------------
\* Properties.
\* ------------------------------------------------------------------------

ReviewReturned == op = "analyze_review" /\ pc = "returned"

SummaryReturned == op = "generate_summary" /\ pc = "returned"

\* the number of buckets of an analyze_review result that hold theme
buckets_holding(a, theme) ==
  Cardinality({s \in Range(Polarities) : theme \in Range(a[s])})

\* C1: in both analyzers _analyze_numeric_ratings classifies a numeric rating r
\* of each of the four rating fields as positive when r >= 7, negative when
\* r <= 4 and neutral when 4 < r < 7.
C1_RatingsClassified ==
  (op = "analyze_review" /\ pc # "idle") =>
    \A k \in 1..Len(rating_fields) :
      LET v == reviews[1][rating_fields[k][1]]
          expected == IF v.num >= 7 THEN "positive"
                      ELSE IF v.num <= 4 THEN "negative"
                      ELSE "neutral"
      IN v.kind = "num" => <<rating_fields[k][2], expected>> \in rating_themes

\* C2 as claimed: after analyze_review returns no theme is present in more than
\* one of the three buckets.
C2_OnePolarityPerTheme ==
  ReviewReturned => \A theme \in AllThemes : buckets_holding(analysis, theme) <= 1

\* <<source, theme>> for every field of the review that gives a theme a polarity:
\* a rating field with a verdict, compensation_range when the salary is
\* classified, a text field whose text matches the theme (in tt.py a headline
\* once per polarity list it matches)
review_sources(version, scorer, review) ==
  {<<rating_fields[k][1], rating_fields[k][2]>> :
     k \in {j \in 1..Len(rating_fields) :
              \E p \in analyze_numeric_ratings(version, review) :
                 p[1] = rating_fields[j][2]}}
  \cup (IF (IF version = "rev2" THEN rev2_salary_appends(review)
            ELSE tt_salary_appends(review)) # {}
        THEN {<<"compensation_range", "compensation">>} ELSE {})
  \cup UNION {IF ~text_used(review, field) THEN {}
              ELSE IF version = "rev2"
              THEN {<<field, theme>> :
                      theme \in Range(rev2_analyze_text(scorer, review[field]).themes)}
              ELSE {<<IF field = "headline" THEN field \o ":" \o p[1] ELSE field, p[2]>> :
                      p \in Range(tt_analyze_text(scorer, review[field]).themes)} :
              field \in Range(text_fields)}

theme_sources(version, scorer, review, theme) ==
  {p[1] : p \in {q \in review_sources(version, scorer, review) : q[2] = theme}}

\* C2, amended: a theme that exactly one field of the review gives a polarity is
\* present in exactly one bucket, and a theme no field gives a polarity in none;
\* only a theme reached by several fields can be present in several buckets.
C2_OnePolarityPerSource ==
  ReviewReturned =>
    LET sources == review_sources(impl, sia, reviews[1])
    IN \A theme \in AllThemes :
         LET n == Cardinality({p \in sources : p[2] = theme})
         IN /\ n = 0 => buckets_holding(analysis, theme) = 0
            /\ n = 1 => buckets_holding(analysis, theme) = 1

\* C2 witness: a theme reached only by pros, whose text the scorer finds
\* negative, is in the positive bucket alone
C2_Witness ==
  /\ ReviewReturned
  /\ impl = "rev2"
  /\ reviews[1]["pros"].kind = "str"
  /\ text_used(reviews[1], "pros")
  /\ rev2_analyze_text(sia, reviews[1]["pros"]).sentiment = "negative"
  /\ theme_sources(impl, sia, reviews[1], "compensation") = {"pros"}
  /\ "compensation" \in Range(analysis["positive"])
  /\ buckets_holding(analysis, "compensation") = 1

\* the review without its malformed fields: a non-numeric rating, an unparsable
\* compensation_range, a non-string or empty headline, pros or cons, a
\* non-string location
well_formed(key, v) ==
  IF key \in {rating_fields[k][1] : k \in 1..Len(rating_fields)} THEN v.kind = "num"
  ELSE IF key = "compensation_range"
  THEN v.kind = "str" /\ ~salary_raises(v) /\ Len(salary_parts(v)) = 2
  ELSE IF key \in Range(text_fields) THEN v.kind = "str" /\ Len(v.str) > 0
  ELSE IF key = "location" THEN v.kind = "str"
  ELSE TRUE

without_malformed(review) ==
  [key \in DOMAIN review |->
     IF well_formed(key, review[key]) THEN review[key] ELSE Absent]

\* the scorer answers for every text of the review
scorer_answers(scorer, review) ==
  \A field \in Range(text_fields) :
     (review[field].kind = "str" /\ Len(review[field].str) > 0)
       => ~scorer[review[field].str].raises

\* C3: analyze_review never raises, whatever fields are absent, empty or
\* malformed, and returns what the well-formed fields contribute when the
\* malformed ones are absent.
C3_NeverRaises ==
  (op = "analyze_review" /\ pc # "idle" /\ scorer_answers(sia, reviews[1])) =>
    /\ pc = "returned"
    /\ \A s \in Range(Polarities) :
         Range(analyze_review(impl, sia, without_malformed(reviews[1]))[s])
           \subseteq Range(analysis[s])


\* ------------------------------------------------------------------------
\* generate_summary: batches, tallies and the rendered Summary.
\* ------------------------------------------------------------------------

\* all_themes after the loop "for review in reviews" over reviews whose
\* analyze_review results are `results`
RECURSIVE tally_results(_)
tally_results(results) ==
  IF Len(results) = 0 THEN ZeroTally
  ELSE add_analysis(tally_results(SubSeq(results, 1, Len(results) - 1)),
                    results[Len(results)])

\* the summaries generate_summary can return from a tally of total_reviews
\* reviews: one for every order in which the set all_unique_themes can be iterated
summaries_of(version, tally, total_reviews) ==
  {summary_of(version, theme_sentiments_of(version, tally, total_reviews, order),
              total_reviews) :
     order \in Orders(all_unique_themes(tally))}

\* xs[order[1]], xs[order[2]], ...
reordered(xs, order) == [k \in 1..Len(order) |-> xs[order[k]]]

\* C4: generate_summary(reviews) returns the same Summary, the order of the
\* entries of equal percentage included, for every permutation of the reviews.
C4_PermutationInvariant ==
  SummaryReturned =>
    \A order \in Orders(1..Len(reviews)) :
         summaries_of(impl, tally_results(reordered(analyses, order)), Len(reviews))
           = {summary}

\* C5: generate_summary([]) performs no division by the review count and
\* returns a Summary whose positive, negative and neutral sequences are empty.
C5_EmptyBatch ==
  (op = "generate_summary" /\ reviews = <<>>) =>
    /\ pc # "raised"
    /\ pc = "returned" => summary = EmptySummary

\* C5 witness: generate_summary([]) has returned
C5_Witness ==
  /\ SummaryReturned
  /\ reviews = <<>>
  /\ all_unique_themes(all_themes) = {}

\* the number of reviews whose analyze_review result holds theme under sentiment
counted(results, sentiment, theme) ==
  Cardinality({k \in 1..Len(results) : theme \in Range(results[k][sentiment])})

\* the number of reviews whose analyze_review result holds theme in any bucket
occurrences(results, theme) ==
  Cardinality({k \in 1..Len(results) :
                 \E s \in Range(Polarities) : theme \in Range(results[k][s])})

\* the theme a rendered entry "<description> (<percentage>% of reviews)" is about
rendered_theme(version, x) ==
  CHOOSE theme \in AllThemes :
    theme_description(version, theme) \o " " = split(x, "(")[1]

\* per sentiment, the themes that have an entry in that sequence of Summary s
summary_themes(version, s) ==
  [p \in Range(Polarities) |->
     {rendered_theme(version, s[p][k]) : k \in 1..Len(s[p])}]

\* the themes that have an entry in Summary s
listed_themes(version, s) ==
  UNION {summary_themes(version, s)[p] : p \in Range(Polarities)}

\* the rendered entry x reads the percentage 100 * count / n to one decimal
reads_percentage(x, count, n) ==
  2 * Abs(sort_key(x) * n - 1000 * count) <= n

inclusion_threshold(version) ==
  IF version = "rev2" THEN REV2_INCLUSION_PCT ELSE TT_INCLUSION_PCT

\* C6: in each analyzer, with its inclusion threshold T (20 in rev2.py, 15 in
\* tt.py), a theme that occurs in the per-review results of exactly k of the
\* n > 0 reviews of a batch appears in the Summary if and only if
\* 100 * k / n >= T, whichever polarities those occurrences fall under.
C6_IncludedByOccurrences ==
  (SummaryReturned /\ Len(reviews) > 0) =>
    LET results == analyses
        n == Len(reviews)
        listed == listed_themes(impl, summary)
    IN \A theme \in AllThemes :
         theme \in listed
           <=> 100 * occurrences(results, theme) >= inclusion_threshold(impl) * n

\* C7: each polarity group of a returned Summary is ordered by percentage
\* descending, and entries of equal percentage by theme identifier ascending.
C7_OrderedByPercentageThenTheme ==
  SummaryReturned =>
    \A s \in Range(Polarities) :
      \A i, j \in 1..Len(summary[s]) :
        i < j =>
          \/ sort_key(summary[s][i]) > sort_key(summary[s][j])
          \/ /\ sort_key(summary[s][i]) = sort_key(summary[s][j])
             /\ str_lt(rendered_theme(impl, summary[s][i]),
                       rendered_theme(impl, summary[s][j]))

\* the scorer raises on a text field of a review of the batch
scorer_fails_in(scorer, batch) ==
  \E k \in 1..Len(batch) : ~scorer_answers(scorer, batch[k])

\* C8: when the scorer raises on one text field of one review of the batch,
\* generate_summary still completes and returns a Summary.
C8_ScorerFailureConfined ==
  (op = "generate_summary" /\ scorer_fails_in(sia, reviews)) => pc # "raised"

\* CorpusTally addition
tally_add(a, b) ==
  [s \in Range(Polarities) |-> [t \in AllThemes |-> a[s][t] + b[s][t]]]

\* the tally of the sub-batch made of the reviews at the indices I, in order
sub_results(results, I) ==
  LET keep == [k \in 1..Len(results) |-> k \in I]
      RECURSIVE pick(_)
      pick(k) == IF k = 0 THEN <<>>
                 ELSE IF keep[k] THEN Append(pick(k - 1), results[k])
                 ELSE pick(k - 1)
  IN pick(Len(results))

LoopDone == op = "generate_summary" /\ pc = "tally" /\ idx > Len(reviews)

\* xs with the elements at i and j exchanged
swapped(xs, i, j) ==
  [k \in 1..Len(xs) |-> IF k = i THEN xs[j] ELSE IF k = j THEN xs[i] ELSE xs[k]]

\* C9: when the loop of generate_summary has gone through the batch, its tally
\* is the sum of the tallies of any two sub-batches the batch is split into,
\* whichever of the two comes first, and it is the tally of the loop over the reviews in
\* any other order: with any two reviews exchanged and, for a batch of at most
\* MaxPermuted reviews, in every permutation.
C9_TallyOrderIndependent ==
  LoopDone =>
    LET all == 1..Len(reviews)
    IN /\ \A I \in SUBSET all :
            LET a == tally_results(sub_results(analyses, I))
                b == tally_results(sub_results(analyses, all \ I))
            IN tally_add(a, b) = all_themes
       /\ \A i, j \in all :
            i < j => tally_results(swapped(analyses, i, j)) = all_themes
       /\ Len(reviews) <= MaxPermuted =>
            \A order \in Orders(all) :
               tally_results(reordered(analyses, order)) = all_themes

\* C9 witness: the loop has tallied a batch of several different reviews in
\* which a theme is counted more than once
C9_Witness ==
  /\ LoopDone
  /\ Len(reviews) >= 3
  /\ \E i, j \in 1..Len(reviews) : reviews[i] # reviews[j]
  /\ \E s \in Range(Polarities) : \E t \in AllThemes : all_themes[s][t] >= 2

\* C10: in rev2.py, for every theme in the tally of a batch of n > 0 reviews,
\* the dominant polarity is one with the maximum percentage, neutral only when
\* the neutral percentage exceeds both others and negative only when the
\* negative percentage exceeds the positive one; the theme is listed, under
\* its dominant polarity only and with that polarity's percentage, if and
\* only if that percentage is >= 20.  The batches have more than five
\* reviews, so that a theme of the tally can have every percentage below 20.
C10_PolicyA ==
  (SummaryReturned /\ impl = "rev2" /\ Len(reviews) > 0) =>
    LET n == Len(reviews)
        listed == summary_themes(impl, summary)
    IN \A theme \in AllThemes :
         LET pos == counted(analyses, "positive", theme)
             neg == counted(analyses, "negative", theme)
             neu == counted(analyses, "neutral", theme)
             max_count == Max2(pos, Max2(neg, neu))
             dominant == IF neu > pos /\ neu > neg THEN "neutral"
                         ELSE IF neg > pos THEN "negative"
                         ELSE "positive"
             count == IF dominant = "neutral" THEN neu
                      ELSE IF dominant = "negative" THEN neg ELSE pos
         IN max_count > 0 =>
              /\ count = max_count
              /\ \A s \in Range(Polarities) :
                   theme \in listed[s] <=> (s = dominant /\ 100 * count >= 20 * n)
              /\ 100 * count >= 20 * n =>
                   \E k \in 1..Len(summary[dominant]) :
                      /\ rendered_theme(impl, summary[dominant][k]) = theme
                      /\ reads_percentage(summary[dominant][k], count, n)

\* C10 witness: rev2.py on a batch of more than five reviews, a theme whose
\* positive, negative and neutral percentages are equal and exactly 20 is
\* listed under positive
C10_Witness ==
  /\ SummaryReturned
  /\ impl = "rev2"
  /\ Len(reviews) > 5
  /\ \E theme \in AllThemes :
       /\ 100 * counted(analyses, "positive", theme) = 20 * Len(reviews)
       /\ counted(analyses, "positive", theme) = counted(analyses, "negative", theme)
       /\ counted(analyses, "positive", theme) = counted(analyses, "neutral", theme)
       /\ theme \in summary_themes(impl, summary)["positive"]

\* C11: in tt.py, for every theme in the tally of a batch of n > 0 reviews, the
\* dominant polarity is neutral, with percentage neu_pct + min(pos_pct,
\* neg_pct), when max(pos_pct, neg_pct) < 30 or |pos_pct - neg_pct| < 15, and
\* otherwise the larger of positive and negative with its own percentage; the
\* theme is listed, under its dominant polarity only and with that percentage,
\* if and only if the percentage is >= 15.  The percentages are those of the
\* counts, 100 * count / n.  The floats of tt.py differ: for 14 positive and
\* 11 negative of 20 reviews, abs(pos_pct - neg_pct) is below 15.
C11_PolicyB ==
  (SummaryReturned /\ impl = "tt" /\ Len(reviews) > 0) =>
    LET n == Len(reviews)
        listed == summary_themes(impl, summary)
    IN \A theme \in AllThemes :
         LET pos == counted(analyses, "positive", theme)
             neg == counted(analyses, "negative", theme)
             neu == counted(analyses, "neutral", theme)
             larger == IF pos >= neg THEN pos ELSE neg
             smaller == IF pos >= neg THEN neg ELSE pos
             near_parity == \/ 100 * larger < 30 * n
                            \/ 100 * (larger - smaller) < 15 * n
             dominant == IF near_parity THEN "neutral"
                         ELSE IF pos > neg THEN "positive" ELSE "negative"
             count == IF near_parity THEN neu + smaller ELSE larger
         IN pos + neg + neu > 0 =>
              /\ \A s \in Range(Polarities) :
                   theme \in listed[s] <=> (s = dominant /\ 100 * count >= 15 * n)
              /\ 100 * count >= 15 * n =>
                   \E k \in 1..Len(summary[dominant]) :
                      /\ rendered_theme(impl, summary[dominant][k]) = theme
                      /\ reads_percentage(summary[dominant][k], count, n)

\* ------------------------------------------------------------------------
\* The salary classifier.
\* ------------------------------------------------------------------------

AnalyzeReviewCalled == op = "analyze_review" /\ pc # "idle"

\* the number of '-' in s
dash_count(s) == Cardinality({i \in 1..Len(s) : Char(s, i) = "-"})

has_digit(s) == \E i \in 1..Len(s) : isdigit(Char(s, i))

\* the text before and the text after the one '-' of s
before_dash(s) == SubSeq(s, 1, (CHOOSE i \in 1..Len(s) : Char(s, i) = "-") - 1)

after_dash(s) == SubSeq(s, (CHOOSE i \in 1..Len(s) : Char(s, i) = "-") + 1, Len(s))

\* the range is a string that splits on '-' into exactly two parts that both
\* hold a digit
parses_to_two(v) ==
  /\ v.kind = "str"
  /\ dash_count(v.str) = 1
  /\ has_digit(before_dash(v.str))
  /\ has_digit(after_dash(v.str))

\* C12: for every compensation_range that is empty, that does not split on '-'
\* into exactly two parts or that has a part without a digit,
\* _analyze_salary_range returns neutral and does not raise, in both analyzers.
C12_SalaryTotal ==
  (AnalyzeReviewCalled /\ salary_sentiment # "") =>
    LET v == reviews[1]["compensation_range"]
    IN /\ (v.kind = "str" /\ ~parses_to_two(v)) => salary_sentiment = "neutral"
       /\ (\A field \in Range(text_fields) : ~text_used(reviews[1], field))
            => pc = "returned"

\* C12 witness: _analyze_salary_range returned neutral for "not-a-range", for
\* a range of three parts or for ""
C12_Witness ==
  /\ AnalyzeReviewCalled
  /\ pc = "returned"
  /\ reviews[1]["compensation_range"] \in
       {Str("not-a-range"), Str("50000-100000-150000"), Str("")}
  /\ salary_sentiment = "neutral"

\* the integer the digits of s spell
digits_value(s) == int(filter_isdigit(s))

\* location contains 'remote', case-insensitively
is_remote(location) ==
  location.kind = "str" /\ contains("remote", lower(location.str))

\* positive iff the average of low and high is above high_threshold, negative
\* iff it is below low_threshold, neutral otherwise
verdict_by_average(low, high, high_threshold, low_threshold) ==
  IF low + high > 2 * high_threshold THEN "positive"
  ELSE IF low + high < 2 * low_threshold THEN "negative"
  ELSE "neutral"

\* C13: in tt.py, for every compensation_range that parses to two integers,
\* _analyze_salary_range compares their average with the thresholds 90000 and
\* 45000 when location contains 'remote' and with 100000 and 50000 otherwise:
\* positive above the high threshold, negative below the low one, else neutral.
C13_TtSalaryThresholds ==
  (AnalyzeReviewCalled /\ impl = "tt" /\ salary_sentiment # ""
     /\ parses_to_two(reviews[1]["compensation_range"])) =>
    LET s == reviews[1]["compensation_range"].str
        low == digits_value(before_dash(s))
        high == digits_value(after_dash(s))
    IN salary_sentiment =
         IF is_remote(reviews[1]["location"])
         THEN verdict_by_average(low, high, 90000, 45000)
         ELSE verdict_by_average(low, high, 100000, 50000)

\* the review with its currency field set to c (Absent: without the field)
with_currency(review, c) == [review EXCEPT !["currency"] = c]

\* C14: the salary verdict does not depend on currency: analyze_review places
\* compensation in the same way whichever currency the review carries, the
\* empty string and no currency field included.
C14_CurrencyIndependent ==
  AnalyzeReviewCalled =>
    \A c \in CurrencyValues :
       salary_sentiment_of(impl, with_currency(reviews[1], c)) = salary_sentiment

\* C15: whenever the review has a compensation_range field, the result of
\* analyze_review holds compensation under the polarity the salary classifier
\* returned for the range.
C15_CompensationAdded ==
  (ReviewReturned /\ has(reviews[1], "compensation_range")) =>
    \E s \in Range(Polarities) :
       /\ salary_sentiment = s
       /\ "compensation" \in Range(analysis[s])

\* a text field of the review matches a keyword of compensation
text_matches_compensation(version, scorer, review) ==
  \E p \in review_sources(version, scorer, review) :
     p[2] = "compensation" /\ p[1] # "compensation_range"

\* C16: a review whose compensation_range is present but unparsable gets
\* compensation under no polarity from the salary field, so tallying the
\* review changes no compensation count unless a text field matches
\* compensation.
C16_UnparsableAddsNothing ==
  (/\ ReviewReturned
   /\ has(reviews[1], "compensation_range")
   /\ ~parses_to_two(reviews[1]["compensation_range"])
   /\ ~text_matches_compensation(impl, sia, reviews[1])) =>
    /\ buckets_holding(analysis, "compensation") = 0
    /\ \A s \in Range(Polarities) :
         add_analysis(ZeroTally, analysis)[s]["compensation"] = 0

\* ---------------------------------------------------------------------------
\* The rating classifier
\* ---------------------------------------------------------------------------

\* the rating fields of the review that are absent or hold a non-number
bad_rating_fields(review) ==
  {k \in 1..Len(rating_fields) :
     ~has(review, rating_fields[k][1]) \/ review[rating_fields[k][1]].kind # "num"}

\* the review with the given rating fields removed
without_ratings(review, ks) ==
  [f \in DOMAIN review |->
     IF \E k \in ks : rating_fields[k][1] = f THEN Absent ELSE review[f]]

\* the review has neither a salary field nor a text field to analyse
ratings_only(review) ==
  /\ ~has(review, "compensation_range")
  /\ \A field \in Range(text_fields) : ~text_used(review, field)

\* C17: a rating field that is absent or holds a non-number gets no verdict:
\* its theme is not in what _analyze_numeric_ratings returns, the other rating
\* fields are classified as if the bad fields were absent, and nothing is
\* raised.
C17_BadRatingNoVerdict ==
  AnalyzeReviewCalled =>
    LET bad == bad_rating_fields(reviews[1])
    IN /\ \A k \in bad : \A p \in rating_themes : p[1] # rating_fields[k][2]
       /\ rating_themes =
            analyze_numeric_ratings(impl, without_ratings(reviews[1], bad))
       /\ ratings_only(reviews[1]) => pc = "returned"

C17_Witness ==
  /\ AnalyzeReviewCalled /\ pc = "returned"
  /\ ratings_only(reviews[1])
  /\ reviews[1]["work_life_balance"].kind \in {"str", "other"}
  /\ ~has(reviews[1], "leadership_management")
  /\ rating_themes = {<<"career_growth", "positive">>, <<"innovation", "positive">>}

\* the order of the verdicts: negative < neutral or no verdict < positive
verdict_rank(verdict) ==
  IF verdict = "negative" THEN 0 ELSE IF verdict = "positive" THEN 2 ELSE 1

\* the verdict _analyze_numeric_ratings gives the k-th rating field
field_verdict(themes, k) ==
  IF \E p \in themes : p[1] = rating_fields[k][2]
  THEN (CHOOSE p \in themes : p[1] = rating_fields[k][2])[2]
  ELSE "none"

\* the verdict of the k-th rating field when the review holds rating r there
verdict_at(version, review, k, r) ==
  field_verdict(
    analyze_numeric_ratings(version, [review EXCEPT ![rating_fields[k][1]] = Num(r)]),
    k)

\* C18: the rating classifier is monotonic: for every rating field holding a
\* number r2 and every smaller rating r1 put in the same field, the verdict of
\* r1 is not above the verdict of r2 in the order negative < neutral or no
\* verdict < positive; in particular r1 positive and r2 negative never happens.
C18_RatingMonotonic ==
  AnalyzeReviewCalled =>
    \A k \in 1..Len(rating_fields) :
       LET value == reviews[1][rating_fields[k][1]]
       IN value.kind = "num" =>
            \A r1 \in 0..MaxRating :
               r1 < value.num =>
                 verdict_rank(verdict_at(impl, reviews[1], k, r1))
                   <= verdict_rank(field_verdict(rating_themes, k))

C18_Witness ==
  /\ AnalyzeReviewCalled
  /\ reviews[1]["work_life_balance"].kind = "num"
  /\ reviews[1]["work_life_balance"].num > RATING_THRESHOLD_HIGH
  /\ field_verdict(rating_themes, 1) = "positive"
  /\ verdict_at(impl, reviews[1], 1, RATING_THRESHOLD_HIGH) = "positive"
  /\ verdict_at(impl, reviews[1], 1, RATING_THRESHOLD_HIGH - 1) # "positive"
  /\ verdict_at(impl, reviews[1], 1, RATING_THRESHOLD_LOW) = "negative"

\* ---------------------------------------------------------------------------
\* The text fields
\* ---------------------------------------------------------------------------

\* a keyword of the theme, of any polarity's list, is contained in the
\* lower-cased text
keyword_matched(version, theme, text_lower) ==
  IF version = "rev2"
  THEN \E keyword \in rev2_themes[theme] : contains(keyword, text_lower)
  ELSE /\ theme \in Range(tt_theme_order)
       /\ \E s \in Range(Polarities) :
            \E keyword \in tt_themes[theme][s] : contains(keyword, text_lower)

\* the themes matched in the given text field of the review
field_matches(version, review, field) ==
  IF text_used(review, field) /\ review[field].kind = "str"
  THEN LET text_lower == lower(review[field].str)
       IN {theme \in AllThemes : keyword_matched(version, theme, text_lower)}
  ELSE {}

\* C19: in both analyzers a theme matched in pros is in the positive list and
\* a theme matched in cons is in the negative list, whatever the scorer says of
\* the text and whichever polarity's keyword list matched; pros puts a theme
\* nowhere else and cons puts a theme nowhere else: a theme in negative has a
\* source other than pros, a theme in positive a source other than cons, and a
\* theme in neutral a source other than pros and cons.
C19_RoleForcing ==
  ReviewReturned =>
    LET sources == review_sources(impl, sia, reviews[1])
        in_pros == field_matches(impl, reviews[1], "pros")
        in_cons == field_matches(impl, reviews[1], "cons")
    IN \A theme \in AllThemes :
         LET from == {p[1] : p \in {q \in sources : q[2] = theme}}
         IN /\ theme \in in_pros => theme \in Range(analysis["positive"])
            /\ theme \in in_cons => theme \in Range(analysis["negative"])
            /\ theme \in Range(analysis["negative"]) => from \ {"pros"} # {}
            /\ theme \in Range(analysis["positive"]) => from \ {"cons"} # {}
            /\ theme \in Range(analysis["neutral"]) => from \ {"pros", "cons"} # {}

\* C19 witness: tt.py, a cons text the scorer finds positive and that matches a
\* positive keyword list, and a pros text that matches negative lists
C19_Witness ==
  /\ ReviewReturned
  /\ impl = "tt"
  /\ reviews[1]["cons"] = Str("Great benefits")
  /\ tt_analyze_text(sia, reviews[1]["cons"]).sentiment = "positive"
  /\ reviews[1]["pros"] = Str("Poor management")
  /\ ~text_used(reviews[1], "headline")
  /\ analysis["negative"] = <<"work_life_balance">>
  /\ analysis["positive"] = <<"compensation", "leadership", "work_life_balance">>
  /\ analysis["neutral"] = <<>>

\* the polarity of a compound score given in hundredths
polarity_of_compound(compound) ==
  CHOOSE s \in Range(Polarities) :
    /\ s = "positive" <=> compound >= COMPOUND_THRESHOLD
    /\ s = "negative" <=> compound <= -COMPOUND_THRESHOLD

\* the themes a field other than the headline gives a polarity
other_sources(version, review) ==
  field_matches(version, review, "pros")
  \cup field_matches(version, review, "cons")
  \cup {p[1] : p \in rating_themes}
  \cup (IF salary_sentiment # "" THEN {"compensation"} ELSE {})

\* C20: in rev2.py every theme with a keyword contained in the lower-cased
\* headline is in the list of the polarity detected for the headline, which is
\* positive iff the compound score is >= 0.05, negative iff it is <= -0.05 and
\* neutral otherwise; the headline puts it in no other list, and a theme with
\* no keyword in the headline is put in no list by the headline.
C20_HeadlineDetectedPolarity ==
  (/\ ReviewReturned
   /\ impl = "rev2"
   /\ text_used(reviews[1], "headline")) =>
    LET headline == reviews[1]["headline"].str
        detected == polarity_of_compound(sia[headline].compound)
        in_headline == field_matches("rev2", reviews[1], "headline")
        elsewhere == other_sources("rev2", reviews[1])
    IN \A theme \in AllThemes :
         IF theme \in in_headline
         THEN /\ theme \in Range(analysis[detected])
              /\ theme \notin elsewhere => buckets_holding(analysis, theme) = 1
         ELSE theme \notin elsewhere => buckets_holding(analysis, theme) = 0

\* C20 witness: a headline whose compound score is exactly 0.05 gives its theme
\* positive, and the themes it does not match are in no list
C20_Witness ==
  /\ ReviewReturned
  /\ impl = "rev2"
  /\ reviews[1]["headline"] = Str("Great benefits")
  /\ sia["Great benefits"].compound = COMPOUND_THRESHOLD
  /\ ~text_used(reviews[1], "pros") /\ ~text_used(reviews[1], "cons")
  /\ salary_sentiment = "" /\ rating_themes = {}
  /\ analysis["positive"] = <<"compensation">>
  /\ analysis["negative"] = <<>> /\ analysis["neutral"] = <<>>

\* ---------------------------------------------------------------------------
\* The per-polarity catalog of tt.py
\* ---------------------------------------------------------------------------

\* scorers that answer every text, with other compound scores than sia
other_scorers(scorer) ==
  {[t \in DOMAIN scorer |-> [raises |-> FALSE, compound |-> c]] : c \in {-62, -5, 0, 5, 62}}
  \cup {[t \in DOMAIN scorer |-> [raises |-> FALSE, compound |-> 0 - scorer[t].compound]]}

\* the polarities whose keyword list of the theme has a keyword in the text
matched_polarities(theme, text_lower) ==
  IF theme \in Range(tt_theme_order)
  THEN {s \in Range(Polarities) :
          \E keyword \in tt_themes[theme][s] : contains(keyword, text_lower)}
  ELSE {}

\* C21: in tt.py a theme matched in the headline is in the list of every
\* polarity whose keyword list for the theme matched, and in another list only
\* when another field puts it there; the scorer's scores have no influence:
\* analyze_review with any other scores for the texts returns the same result.
C21_ScorerHasNoInfluence ==
  (ReviewReturned /\ impl = "tt") =>
    /\ \A scorer \in other_scorers(sia) :
         tt_analyze_review(scorer, reviews[1]) = analysis
    /\ text_used(reviews[1], "headline") =>
         LET text_lower == lower(reviews[1]["headline"].str)
             elsewhere == other_sources("tt", reviews[1])
         IN \A theme \in AllThemes :
              LET matched == matched_polarities(theme, text_lower)
              IN \A s \in Range(Polarities) :
                   /\ s \in matched => theme \in Range(analysis[s])
                   /\ (theme \in Range(analysis[s]) /\ theme \notin elsewhere)
                        => s \in matched

\* C21 witness: a headline the scorer finds positive matches only negative
\* keyword lists, and its themes are in the negative list alone
C21_Witness ==
  /\ ReviewReturned /\ impl = "tt"
  /\ reviews[1]["headline"] = Str("Poor management")
  /\ sia["Poor management"].compound >= COMPOUND_THRESHOLD
  /\ ~text_used(reviews[1], "pros") /\ ~text_used(reviews[1], "cons")
  /\ rating_themes = {} /\ salary_sentiment = ""
  /\ analysis["negative"] = <<"compensation", "leadership", "work_life_balance">>
  /\ analysis["positive"] = <<>> /\ analysis["neutral"] = <<>>

\* ---------------------------------------------------------------------------
\* The result of analyze_review
\* ---------------------------------------------------------------------------

\* the list of strings is strictly ascending: sorted and without duplicates
strictly_ascending(xs) ==
  \A i \in 1..(Len(xs) - 1) : str_lt(xs[i], xs[i + 1])

\* C22: each of the three lists of an analyze_review result holds a theme at
\* most once and is in ascending order of the theme identifiers, however many
\* fields of the review put the same theme in the list.
C22_BucketsSortedUnique ==
  (AnalyzeReviewCalled /\ ~analysis.raised) =>
    \A s \in Range(Polarities) : strictly_ascending(analysis[s])

\* C22 witness: leadership is put in positive by the rating field and by pros,
\* and is once in the sorted positive list
C22_Witness ==
  /\ ReviewReturned /\ impl = "rev2"
  /\ theme_sources(impl, sia, reviews[1], "leadership") = {"leadership_management", "pros"}
  /\ <<"leadership", "positive">> \in rating_themes
  /\ analysis["positive"] = <<"company_performance", "diversity_inclusion", "leadership">>

\* ---------------------------------------------------------------------------
\* The tally loop of generate_summary
\* ---------------------------------------------------------------------------

\* the loop has tallied one more review
ReviewTallied == pc = "tally" /\ pc' = "tally" /\ idx' = idx + 1

\* C23: tallying one review raises the count of (theme, polarity) by exactly 1
\* for each pair of the review's result and leaves every other count as it
\* was; a theme the review holds under several polarities is counted once
\* under each of them.
C23_TallyStep ==
  [][ReviewTallied =>
        \A s \in Range(Polarities) : \A t \in AllThemes :
           all_themes'[s][t] =
             all_themes[s][t] + (IF t \in Range(analysis'[s]) THEN 1 ELSE 0)]_vars

\* C23 witness: the review just tallied holds compensation under all three
\* polarities, and each of the three counts has gone up
C23_Witness ==
  /\ op = "generate_summary" /\ pc = "tally" /\ idx = 2
  /\ "compensation" \in Range(analysis["positive"])
  /\ "compensation" \in Range(analysis["negative"])
  /\ all_themes["positive"]["compensation"] = 1
  /\ all_themes["negative"]["compensation"] = 1
  /\ "compensation" \in Range(analysis["neutral"])
  /\ all_themes["neutral"]["compensation"] = 1

\* ---------------------------------------------------------------------------
\* The end-to-end examples
\* ---------------------------------------------------------------------------

ExampleAnalyzed == ReviewReturned /\ reviews[1] = ExampleReview

\* C24 as claimed: for the example review work_life_balance, career_growth,
\* innovation and compensation are positive and leadership, rated 7, is neutral
C24_ExampleLeadershipNeutral ==
  ExampleAnalyzed =>
    /\ {"work_life_balance", "career_growth", "innovation", "compensation"}
         \subseteq Range(analysis["positive"])
    /\ "leadership" \in Range(analysis["neutral"])

\* C24, amended: for the example review work_life_balance, career_growth,
\* innovation, compensation and also leadership, rated exactly 7, are in the
\* positive list, and nothing is neutral; cons adds work_life_balance and
\* project_management to the negative list in rev2.py and nothing in tt.py.
C24_ExampleLeadershipPositive ==
  ExampleAnalyzed =>
    /\ analysis["positive"] =
         <<"career_growth", "compensation", "innovation", "leadership", "work_life_balance">>
    /\ analysis["neutral"] = <<>>
    /\ analysis["negative"] =
         IF impl = "rev2" THEN <<"project_management", "work_life_balance">> ELSE <<>>
    /\ <<"leadership", "positive">> \in rating_themes
    /\ salary_sentiment = "positive"

C24_Witness ==
  /\ ExampleAnalyzed
  /\ "leadership" \in Range(analysis["positive"])
  /\ "leadership" \notin Range(analysis["neutral"])

\* the entry of the theme in the list of Summary entries, <<>> if it has none
entries_of(version, entries, theme) ==
  SelectSeq(entries, LAMBDA x : rendered_theme(version, x) = theme)

\* C25: in both analyzers, when a theme is positive in p of the n reviews of a
\* batch, neutral in the other n - p and never negative, with p > n - p, the
\* Summary has one entry for it, under positive, whose percentage is 100*p/n
\* to one decimal; for p = 4 and n = 5 the entry reads 80.0%.
C25_MajorityPositive ==
  (SummaryReturned /\ Len(reviews) > 0) =>
    LET n == Len(reviews)
    IN \A theme \in AllThemes :
         LET p == counted(analyses, "positive", theme)
             neu == counted(analyses, "neutral", theme)
         IN (/\ counted(analyses, "negative", theme) = 0
             /\ p + neu = n
             /\ occurrences(analyses, theme) = n
             /\ \A k \in 1..n : buckets_holding(analyses[k], theme) = 1
             /\ p > n - p) =>
              LET mine == entries_of(impl, summary["positive"], theme)
              IN /\ Len(mine) = 1
                 /\ entries_of(impl, summary["negative"], theme) = <<>>
                 /\ entries_of(impl, summary["neutral"], theme) = <<>>
                 /\ 2 * Abs(sort_key(mine[1]) * n - 1000 * p) <= n
                 /\ (p = 4 /\ n = 5) =>
                      mine[1] = theme_description(impl, theme) \o " (80.0% of reviews)"

\* C25 witness: compensation is positive in 4 and neutral in 1 of 5 reviews
\* and is listed under positive at 80.0%
C25_Witness ==
  /\ SummaryReturned /\ Len(reviews) = 5
  /\ counted(analyses, "positive", "compensation") = 4
  /\ counted(analyses, "neutral", "compensation") = 1
  /\ counted(analyses, "negative", "compensation") = 0
  /\ \E k \in 1..Len(summary["positive"]) :
       summary["positive"][k] = "Competitive compensation and benefits package (80.0% of reviews)"

\* ---------------------------------------------------------------------------
\* The Summary
\* ---------------------------------------------------------------------------

\* C29: every percentage of a Summary of a batch of n > 0 reviews is between
\* 0 and 100, in both analyzers, and at every point of the tally loop each
\* count is at most the number of reviews tallied so far.
C29_PercentageWithin100 ==
  /\ (op = "generate_summary" /\ pc = "tally") =>
       \A s \in Range(Polarities) : \A t \in AllThemes : all_themes[s][t] <= idx - 1
  /\ (SummaryReturned /\ Len(reviews) > 0) =>
       \A s \in Range(Polarities) : \A k \in 1..Len(summary[s]) :
          sort_key(summary[s][k]) >= 0 /\ sort_key(summary[s][k]) <= 1000

\* the dominant polarity the analyzer determines for a theme with the given
\* numbers of reviews under each polarity
dominant_polarity(version, pos, neg, neu, n) ==
  IF version = "rev2" THEN rev2_dominant(pos, neg, neu, n).dominant
  ELSE tt_dominant(pos, neg, neu, n).dominant

\* C28: in every Summary, of both analyzers, a theme has at most one entry
\* over the three polarity groups together, and that entry is in the group of
\* the theme's dominant polarity.
C28_OneEntryPerTheme ==
  (SummaryReturned /\ Len(reviews) > 0) =>
    LET listed == summary_themes(impl, summary)
    IN /\ Len(summary["positive"]) + Len(summary["negative"]) + Len(summary["neutral"])
            = Cardinality(listed["positive"] \cup listed["negative"] \cup listed["neutral"])
       /\ \A s \in Range(Polarities) : \A theme \in listed[s] :
            s = dominant_polarity(impl,
                  counted(analyses, "positive", theme),
                  counted(analyses, "negative", theme),
                  counted(analyses, "neutral", theme), Len(reviews))

\* C28 witness: a theme that reviews hold under all three polarities has its
\* one entry, and other themes have theirs in other groups
C28_Witness ==
  /\ SummaryReturned /\ Len(reviews) >= 2
  /\ \A s \in Range(Polarities) : counted(analyses, s, "compensation") >= 1
  /\ Len(entries_of(impl, summary["positive"], "compensation")) = 1
  /\ entries_of(impl, summary["negative"], "compensation") = <<>>
  /\ entries_of(impl, summary["neutral"], "compensation") = <<>>
  /\ summary["negative"] # <<>>

\* ---------------------------------------------------------------------------
\* A sequence of calls on one analyzer
\* ---------------------------------------------------------------------------

\* what analyze_review returns for each review of the batch on a new analyzer
fresh_results(version, scorer, batch) ==
  [k \in 1..Len(batch) |-> analyze_review(version, scorer, batch[k])]

\* C26: the analyzer keeps no state across calls.  After any earlier calls on
\* the same analyzer, the tally of generate_summary is the tally a new analyzer
\* makes of the batch, the Summary is one a new analyzer returns for the batch,
\* analyze_review returns what a new analyzer returns, and no call changes the
\* reviews it is given.
C26_NoStateAcrossCalls ==
  /\ [](/\ LoopDone =>
             all_themes = tally_results(fresh_results(impl, sia, reviews))
        /\ SummaryReturned =>
             summary \in summaries_of(impl,
                           tally_results(fresh_results(impl, sia, reviews)), Len(reviews))
        /\ ReviewReturned => analysis = analyze_review(impl, sia, reviews[1]))
  /\ [][pc # "idle" => reviews' = reviews]_vars

\* C26 witness: generate_summary returns a Summary with entries after two
\* earlier calls on the same analyzer have ended
C26_Witness ==
  /\ SummaryReturned
  /\ calls = MaxCalls
  /\ Len(reviews) = MaxCallBatch
  /\ summary # EmptySummary

\* ---------------------------------------------------------------------------
\* YouTubeClipper (src/2yt.py)
\* ---------------------------------------------------------------------------

\* _get_video_info has ended: it returned the YouTube object or raised
VideoInfoEnded == info # ""

\* C27: _get_video_info raises PrivateVideoError for a private video (empty
\* watch_html) and VideoUnavailableError only when the length cannot be
\* retrieved; it makes at most 3 attempts and returns nothing but a YouTube
\* object.  The code raises VideoUnavailableError for a private video.
C27_PrivateVideoRaisesPrivateError ==
  VideoInfoEnded =>
    /\ video_kind = "private" => info = "PrivateVideoError"
    /\ info = "VideoUnavailableError" => video_kind # "private"
    /\ tries <= MAX_TRIES
    /\ info \in {"yt", "PrivateVideoError", "VideoUnavailableError"}

\* download_clip has ended after the temporary file was downloaded
EndedAfterDownload == clip_pc = "ended" /\ temp_path

\* C30: when download_clip ends after the temporary file was downloaded, the
\* file is removed and the opened video and clip are closed, even when one
\* cleanup step fails: each resource other than the one whose own step raised
\* is released.  The code skips the cleanup steps after the one that raised.
C30_CleanupAlwaysDone ==
  EndedAfterDownload =>
    /\ cleanup_error # "os.remove" => ~temp_file
    /\ cleanup_error # "video.close" => video # "open"
    /\ cleanup_error # "video_clip.close" => video_clip # "open"
====
